---- MODULE Spec2Model ----
(***************************************************************************)
(* Exchange-rate cache/service (loot-core/src/server/exchange-rate) and    *)
(* the schedule engine (loot-core/src/server/schedules/app.ts).            *)
(*                                                                         *)
(* Every async function is a task that advances one await at a time; the   *)
(* code between two awaits is one atomic step (single-threaded event loop).*)
(***************************************************************************)
EXTENDS Integers, Sequences, FiniteSets, TLC

\* ------------------------------------------------------------------ bounds
MaxGetRates == 1     \* getRate calls in flight at once
MaxCycles == 2       \* update cycles in flight at once
MaxCalls == 2        \* external invocations of the rate service per run
MaxTicks == 2        \* clock steps per run
MaxDay == 1          \* last calendar day the clock reaches
MaxTimers == 2       \* pending setTimeout callbacks
MaxSyncEvents == 2   \* 'sync' events delivered per run
MaxPending == 2      \* savePrefs writes not applied yet
MaxItems == 3        \* entities of one kind in the budget
MaxEntries == 2      \* entries of a schedules file
MaxConditions == 2   \* conditions in one list given to updateConditions

\* --------------------------------------------------------------- constants
secondsInMinute == 60
msInSecond == 1000
minutesDefault == 15
minutesKeyed == 60
BaseRetryMs == 60000
upcomingLengthDefault == 7
TickSteps == <<15 * 60 * 1000, 45 * 60 * 1000>>
DayMs == 24 * 60 * 60 * 1000

Currencies == {"USD", "EUR"}
Days == 0..MaxDay
NoDate == -1
NoRow == [none |-> TRUE]
NoBase == "unset"
Null == <<"null">>
NoResult == <<"none">>
NoTimestamp == -1
NoCurrency == "NULL"

\* rates are rationals <<numerator, denominator>>
Zero == <<0, 1>>
One == <<1, 1>>
Rates == {Zero, <<2, 1>>}
ProviderRates == {<<2, 1>>}
Inv(r) == <<r[2], r[1]>>

OpenExchangeRatesName == "openexchangerates"
MempoolSpaceName == "mempool.space"
ManualSource == "manual"

VARIABLES
  now,                    \* wall clock, ms
  appId,                  \* openExchangeRatesAppId preference is set
  basePref,               \* defaultCurrencyCode preference
  accountCurrencies,      \* currency codes of the non-tombstoned accounts
  providers,              \* ExchangeRateService.providers
  periodicUpdatesStarted, \* ExchangeRateService.periodicUpdatesStarted
  initialFetchComplete,   \* ExchangeRateService.initialFetchComplete
  servicesInitialized,    \* initializeExchangeRateServices has run
  cache,                  \* rows of table exchange_rates
  lastWrite,              \* history: last cacheRate argument per key
  tasks,                  \* async chains of the rate service
  timers,                 \* pending setTimeout callbacks of the update loop
  calls,                  \* external invocations made so far
  ticks,                  \* clock steps made so far
  balanceRefreshSent,     \* sync-event {tables: ['accounts']} messages sent
  lastScheduleRun,        \* prefs.getPrefs().lastScheduleRun
  pendingPrefs,           \* savePrefs calls whose write is not applied yet
  schedules,              \* rows of table schedules
  rules,                  \* rows of table rules
  nextDates,              \* rows of table schedules_next_date
  transactions,           \* rows of table transactions
  closedAccounts,         \* ids of the accounts with closed = 1
  mut,                    \* the mutator runMutator is executing
  mutQueue,               \* mutators waiting in runMutator
  syncEvents,             \* 'sync' events delivered so far
  syncRuns,               \* history: runs the sync handler asked for this day
  runsToday,              \* history: advancement runs active this day
  postsToday,             \* history: transactions posted this day
  sent,                   \* messages sent to the client by the engine
  lastResult,             \* outcome of the last client command
  imp,                    \* the importSchedules call under way
  accounts,               \* rows of table accounts, in query order
  payees,                 \* rows of table payees, in query order
  categories,             \* rows of categories joined with their group
  file                    \* content of the schedules file on disk

rateVars == <<now, appId, basePref, accountCurrencies, providers,
              periodicUpdatesStarted, initialFetchComplete,
              servicesInitialized, cache, lastWrite, tasks, timers, calls,
              ticks, balanceRefreshSent>>

importVars == <<imp, accounts, payees, categories, file>>

schedVars == <<lastScheduleRun, pendingPrefs, schedules, rules, nextDates,
               transactions, closedAccounts, mut, mutQueue, syncEvents, syncRuns, runsToday,
               postsToday, sent, lastResult, importVars>>

vars == <<rateVars, schedVars>>

today == now \div DayMs

\* ------------------------------------------------------------ cache table
RowId(from, to, date) == <<from, to, date>>

MkRow(from, to, date, rate, timestamp, source) ==
  [id |-> RowId(from, to, date), from_currency |-> from, to_currency |-> to,
   date |-> date, rate |-> rate, timestamp |-> timestamp, source |-> source]

InsertPlain(c, row) == c \cup {row}

\* INSERT OR REPLACE under PRIMARY KEY(id) and UNIQUE(from, to, date)
InsertOrReplace(c, row) ==
  {r \in c : /\ r.id # row.id
             /\ <<r.from_currency, r.to_currency, r.date>> #
                  <<row.from_currency, row.to_currency, row.date>>}
    \cup {row}

cacheRate(c, rateData) ==
  InsertOrReplace(c, MkRow(rateData.from_currency, rateData.to_currency,
                           rateData.date, rateData.rate, rateData.timestamp,
                           rateData.source))

\* SELECT * ... WHERE from = ? AND to = ? AND date = ?
\*   ORDER BY timestamp DESC LIMIT 1
Lookup(c, from, to, date) ==
  LET hits == {r \in c : /\ r.from_currency = from
                         /\ r.to_currency = to
                         /\ r.date = date}
  IN IF hits = {} THEN NoRow
     ELSE CHOOSE r \in hits : \A s \in hits : s.timestamp <= r.timestamp

\* history: the last write to each key, and whether it replaced an earlier one
Recorded(lw, rateData) ==
  LET key == RowId(rateData.from_currency, rateData.to_currency,
                   rateData.date)
  IN [lw EXCEPT ![key] = [data |-> rateData, replaced |-> lw[key] # NoRow]]

\* ---------------------------------------------------------- refresh policy
getNextUpdateDelay(keyed) ==
  (IF keyed THEN minutesKeyed ELSE minutesDefault) * secondsInMinute * msInSecond

initializeProviders(keyed) ==
  IF keyed THEN <<OpenExchangeRatesName, MempoolSpaceName>>
  ELSE <<MempoolSpaceName>>

\* ------------------------------------------------------------------ tasks
IdleTask ==
  [kind |-> "none", pc |-> "idle", from |-> "", to |-> "", date |-> NoDate,
   isToday |-> FALSE, provs |-> <<>>, idx |-> 0, fbts |-> 0, cached |-> NoRow,
   nowRead |-> 0, base |-> NoBase, todo |-> <<>>, result |-> NoResult,
   reads |-> 0, pcalls |-> 0, queried |-> <<>>]

TaskIds == 1..(MaxGetRates + MaxCycles)
FreeSlots == {t \in TaskIds : tasks[t].pc = "idle"}
InFlight(kind) == {t \in TaskIds : tasks[t].kind = kind}
CanStartCycle == Cardinality(InFlight("cycle")) < MaxCycles
FirstFree(S) == CHOOSE t \in S : \A u \in S : t <= u

\* the code of startPeriodicUpdate up to its first await: a new cycle
CycleTask == [IdleTask EXCEPT !.kind = "cycle", !.pc = "readBase"]

\* fetchAndCacheRates up to its first await
EnterFetch(tk, from, to) ==
  IF providers = <<>>
  THEN [tk EXCEPT !.from = from, !.to = to, !.pc = "initProv",
                  !.queried = <<>>]
  ELSE [tk EXCEPT !.from = from, !.to = to, !.pc = "fetchLoop",
                  !.provs = providers, !.idx = 1, !.fbts = now,
                  !.queried = <<>>]

\* where a task resumes when fetchAndCacheRates returns
AfterFetchPc(tk) == IF tk.kind = "getRate" THEN "readFresh" ELSE "cycleNext"

AbortOnThrow(outcome, idx, len) ==
  IF outcome = "throw" THEN len + 1 ELSE idx + 1

\* the for-of loop over the providers goes on whatever the provider did
NextProviderIdx(outcome, idx, len) == idx + 1

\* what provider.fetchRates(base, [target]) may do: throw, answer [], or
\* answer one ExchangeRateData (its timestamp is optional)
ProviderFailures == {[kind |-> "throw"], [kind |-> "empty"]}
ProviderAnswers ==
  [kind : {"rates"}, rate : ProviderRates, date : {today},
   timestamp : {NoTimestamp, now}]
ProviderOutcomes == ProviderFailures \cup ProviderAnswers

\* fetchAndCacheRates: await initializeProviders()
InitProv(t) ==
  /\ tasks[t].pc = "initProv"
  /\ providers' = initializeProviders(appId)
  /\ tasks' = [tasks EXCEPT ![t] =
                 [@ EXCEPT !.pc = "fetchLoop", !.provs = providers',
                           !.idx = 1, !.fbts = now]]
  /\ UNCHANGED <<now, appId, basePref, accountCurrencies,
                 periodicUpdatesStarted, initialFetchComplete,
                 servicesInitialized, cache, lastWrite, timers, calls, ticks,
                 balanceRefreshSent, schedVars>>

\* fetchAndCacheRates: one iteration of the provider loop, the provider
\* having done o
FetchStep(t, o) ==
  /\ tasks[t].pc = "fetchLoop"
  /\ LET tk == tasks[t]
         p == tk.provs[tk.idx]
         len == Len(tk.provs)
         ni == NextProviderIdx(o.kind, tk.idx, len)
         resumed ==
           [tk EXCEPT !.idx = ni,
                      !.pc = IF ni > len THEN AfterFetchPc(tk) ELSE @,
                      !.pcalls = @ + 1,
                      !.queried = Append(@, [name |-> p, outcome |-> o])]
     IN /\ tasks' = [tasks EXCEPT ![t] = resumed]
        /\ IF o.kind = "rates"
           THEN LET rateData ==
                      [from_currency |-> tk.from, to_currency |-> tk.to,
                       rate |-> o.rate, date |-> o.date, source |-> p,
                       timestamp |-> IF o.timestamp = NoTimestamp
                                     THEN tk.fbts ELSE o.timestamp]
                IN /\ cache' = cacheRate(cache, rateData)
                   /\ lastWrite' = Recorded(lastWrite, rateData)
           ELSE UNCHANGED <<cache, lastWrite>>
  /\ UNCHANGED <<now, appId, basePref, accountCurrencies, providers,
                 periodicUpdatesStarted, initialFetchComplete,
                 servicesInitialized, timers, calls, ticks,
                 balanceRefreshSent, schedVars>>

\* --------------------------------------------------------------- getRate
AlwaysConvert(from, to) == FALSE

\* if (fromCurrency === toCurrency) return 1.0
SameCurrency(from, to) == from = to

NeverHistoricalHit(row, isToday) == FALSE

\* if (cachedRate && !isToday) return cachedRate.rate
IsHistoricalHit(row, isToday) == row # NoRow /\ ~isToday

FreshAtLimit(nowRead, timestamp, ageLimitMs) ==
  nowRead - timestamp <= ageLimitMs

\* now.getTime() - rateTime.getTime() < ageLimitMs
IsFresh(nowRead, timestamp, ageLimitMs) == nowRead - timestamp < ageLimitMs

ReverseNotInverted(rev) ==
  IF rev # NoRow /\ rev.rate # Zero THEN rev.rate ELSE Null

\* if (reverseRate && reverseRate.rate !== 0) return 1 / reverseRate.rate
ReverseResult(rev) ==
  IF rev # NoRow /\ rev.rate # Zero THEN Inv(rev.rate) ELSE Null

Done(tk, r) == [tk EXCEPT !.pc = "done", !.result = r]

\* after a miss or a stale row: the historical provider loop, else the
\* live fetch
AfterMiss(tk) ==
  IF ~tk.isToday /\ providers # <<>>
  THEN [tk EXCEPT !.pc = "histLoop", !.provs = providers, !.idx = 1]
  ELSE EnterFetch(tk, tk.from, tk.to)

\* getRate up to its first await (the first cache query)
GetRateCall(from, to, dateArg) ==
  /\ calls < MaxCalls
  /\ Cardinality(InFlight("getRate")) < MaxGetRates
  /\ calls' = calls + 1
  /\ LET t == FirstFree(FreeSlots)
         targetDate == IF dateArg = NoDate THEN today ELSE dateArg
         call == [IdleTask EXCEPT !.kind = "getRate", !.from = from,
                                  !.to = to, !.date = targetDate,
                                  !.isToday = (targetDate = today)]
     IN IF SameCurrency(from, to)
        THEN tasks' = [tasks EXCEPT ![t] = Done(call, One)]
        ELSE IF periodicUpdatesStarted
        THEN tasks' = [tasks EXCEPT ![t] = [call EXCEPT !.pc = "readCached"]]
        ELSE /\ CanStartCycle
             /\ tasks' = [tasks EXCEPT
                            ![t] = [call EXCEPT !.pc = "readCached"],
                            ![FirstFree(FreeSlots \ {t})] = CycleTask]
  /\ UNCHANGED <<now, appId, basePref, accountCurrencies, providers,
                 periodicUpdatesStarted, initialFetchComplete,
                 servicesInitialized, cache, lastWrite, timers, ticks,
                 balanceRefreshSent, schedVars>>

\* the first cache query answers
ReadCached(t) ==
  /\ tasks[t].kind = "getRate" /\ tasks[t].pc = "readCached"
  /\ LET tk == [tasks[t] EXCEPT !.reads = @ + 1]
         row == Lookup(cache, tk.from, tk.to, tk.date)
     IN tasks' = [tasks EXCEPT ![t] =
          IF IsHistoricalHit(row, tk.isToday)
          THEN Done([tk EXCEPT !.cached = row], row.rate)
          ELSE IF row # NoRow /\ tk.isToday
          THEN [tk EXCEPT !.cached = row, !.nowRead = now, !.pc = "ageLimit"]
          ELSE AfterMiss([tk EXCEPT !.cached = row])]
  /\ UNCHANGED <<now, appId, basePref, accountCurrencies, providers,
                 periodicUpdatesStarted, initialFetchComplete,
                 servicesInitialized, cache, lastWrite, timers, calls, ticks,
                 balanceRefreshSent, schedVars>>

\* await this.getNextUpdateDelay() answers: the freshness test
AgeLimit(t) ==
  /\ tasks[t].kind = "getRate" /\ tasks[t].pc = "ageLimit"
  /\ LET tk == tasks[t]
     IN tasks' = [tasks EXCEPT ![t] =
          IF IsFresh(tk.nowRead, tk.cached.timestamp, getNextUpdateDelay(appId))
          THEN Done(tk, tk.cached.rate)
          ELSE AfterMiss(tk)]
  /\ UNCHANGED <<now, appId, basePref, accountCurrencies, providers,
                 periodicUpdatesStarted, initialFetchComplete,
                 servicesInitialized, cache, lastWrite, timers, calls, ticks,
                 balanceRefreshSent, schedVars>>

HistoricalHitAsksOn(tk, rate) ==
  IF tk.idx < Len(tk.provs) THEN [tk EXCEPT !.idx = @ + 1]
  ELSE EnterFetch(tk, tk.from, tk.to)

\* if (rate !== null) { await this.cacheRate(...); return rate; }
HistoricalHit(tk, rate) == Done(tk, rate)

\* one provider.fetchHistoricalRate answers (both providers support history)
HistStep(t) ==
  /\ tasks[t].kind = "getRate" /\ tasks[t].pc = "histLoop"
  /\ LET tk == [tasks[t] EXCEPT !.pcalls = @ + 1]
         p == tk.provs[tk.idx]
     IN \/ \E rate \in ProviderRates :
             LET rateData == [from_currency |-> tk.from, to_currency |-> tk.to,
                              rate |-> rate, date |-> tk.date, source |-> p,
                              timestamp |-> now]
             IN /\ cache' = cacheRate(cache, rateData)
                /\ lastWrite' = Recorded(lastWrite, rateData)
                /\ tasks' = [tasks EXCEPT ![t] = HistoricalHit(tk, rate)]
        \/ \E kind \in {"throw", "null"} :
             /\ tasks' = [tasks EXCEPT ![t] =
                  IF tk.idx < Len(tk.provs)
                  THEN [tk EXCEPT !.idx = @ + 1]
                  ELSE EnterFetch(tk, tk.from, tk.to)]
             /\ UNCHANGED <<cache, lastWrite>>
  /\ UNCHANGED <<now, appId, basePref, accountCurrencies, providers,
                 periodicUpdatesStarted, initialFetchComplete,
                 servicesInitialized, timers, calls, ticks,
                 balanceRefreshSent, schedVars>>

FreshRateNewerOnly(tk, row) ==
  IF row # NoRow /\ (tk.cached = NoRow \/ row.timestamp > tk.cached.timestamp)
  THEN Done(tk, row.rate)
  ELSE [tk EXCEPT !.pc = "readReverse"]

\* if (freshRate) return freshRate.rate; else the reverse query
FreshRate(tk, row) ==
  IF row # NoRow THEN Done(tk, row.rate)
  ELSE [tk EXCEPT !.pc = "readReverse"]

\* the cache query after fetchAndCacheRates answers
ReadFresh(t) ==
  /\ tasks[t].kind = "getRate" /\ tasks[t].pc = "readFresh"
  /\ LET tk == [tasks[t] EXCEPT !.reads = @ + 1]
         row == Lookup(cache, tk.from, tk.to, tk.date)
     IN tasks' = [tasks EXCEPT ![t] = FreshRate(tk, row)]
  /\ UNCHANGED <<now, appId, basePref, accountCurrencies, providers,
                 periodicUpdatesStarted, initialFetchComplete,
                 servicesInitialized, cache, lastWrite, timers, calls, ticks,
                 balanceRefreshSent, schedVars>>

\* the reverse cache query answers
ReadReverse(t) ==
  /\ tasks[t].kind = "getRate" /\ tasks[t].pc = "readReverse"
  /\ LET tk == [tasks[t] EXCEPT !.reads = @ + 1]
         rev == Lookup(cache, tk.to, tk.from, tk.date)
     IN tasks' = [tasks EXCEPT ![t] = Done(tk, ReverseResult(rev))]
  /\ UNCHANGED <<now, appId, basePref, accountCurrencies, providers,
                 periodicUpdatesStarted, initialFetchComplete,
                 servicesInitialized, cache, lastWrite, timers, calls, ticks,
                 balanceRefreshSent, schedVars>>

\* the caller takes the answer of getRate
GetRateReturn(t) ==
  /\ tasks[t].kind = "getRate" /\ tasks[t].pc = "done"
  /\ tasks' = [tasks EXCEPT ![t] = IdleTask]
  /\ UNCHANGED <<now, appId, basePref, accountCurrencies, providers,
                 periodicUpdatesStarted, initialFetchComplete,
                 servicesInitialized, cache, lastWrite, timers, calls, ticks,
                 balanceRefreshSent, schedVars>>

addManualRate(from, to, rate, dateArg) ==
  /\ calls < MaxCalls
  /\ calls' = calls + 1
  /\ LET rateData == [from_currency |-> from, to_currency |-> to,
                      rate |-> rate,
                      date |-> IF dateArg = NoDate THEN today ELSE dateArg,
                      source |-> ManualSource, timestamp |-> now]
     IN /\ cache' = cacheRate(cache, rateData)
        /\ lastWrite' = Recorded(lastWrite, rateData)
  /\ UNCHANGED <<now, appId, basePref, accountCurrencies, providers,
                 periodicUpdatesStarted, initialFetchComplete,
                 servicesInitialized, tasks, timers, ticks,
                 balanceRefreshSent, schedVars>>

\* --------------------------------------------------- periodic update loop
CurrencyOrder == <<"USD", "EUR">>
SetToSeq(S) == SelectSeq(CurrencyOrder, LAMBDA c : c \in S)

\* SELECT DISTINCT COALESCE(currency_code, default) FROM accounts, falsy
\* codes dropped
getUsedCurrencies(pref) ==
  LET defaultCurrencyCode == IF pref = NoBase THEN "" ELSE pref
      codes == {IF c = NoCurrency THEN defaultCurrencyCode ELSE c :
                  c \in accountCurrencies}
  IN SetToSeq(codes \ {""})

markPeriodicUpdatesStarted == TRUE
markPeriodicUpdatesStopped == FALSE

\* setTimeout(() => this.startPeriodicUpdate()..., delay)
SetTimer(delay) == Append(timers, [due |-> now + delay, delay |-> delay])

RECURSIVE SkipBase(_, _)
SkipBase(todo, base) ==
  IF todo # <<>> /\ Head(todo) = base THEN SkipBase(Tail(todo), base)
  ELSE todo

\* the loop over targetCurrencies: the next foreign currency is fetched, or
\* the loop is over and the one-time balance refresh is sent
CycleLoop(t, tk) ==
  LET rest == SkipBase(tk.todo, tk.base)
  IN IF rest # <<>>
     THEN /\ tasks' = [tasks EXCEPT ![t] =
                 EnterFetch([tk EXCEPT !.todo = Tail(rest)], Head(rest),
                            tk.base)]
          /\ UNCHANGED <<initialFetchComplete, balanceRefreshSent>>
     ELSE /\ tasks' = [tasks EXCEPT ![t] = [tk EXCEPT !.todo = <<>>,
                                                      !.pc = "schedule"]]
          /\ initialFetchComplete' = TRUE
          /\ balanceRefreshSent' =
               IF initialFetchComplete THEN balanceRefreshSent
               ELSE balanceRefreshSent + 1

\* startPeriodicUpdate called: returns at once when the loop counts as
\* started (and the caller's then() marks it started), else a cycle begins
startPeriodicUpdate ==
  IF periodicUpdatesStarted
  THEN /\ periodicUpdatesStarted' = markPeriodicUpdatesStarted
       /\ UNCHANGED tasks
  ELSE /\ CanStartCycle
       /\ tasks' = [tasks EXCEPT ![FirstFree(FreeSlots)] = CycleTask]
       /\ UNCHANGED periodicUpdatesStarted

\* the base-currency query answers
CycleReadBase(t) ==
  /\ tasks[t].kind = "cycle" /\ tasks[t].pc = "readBase"
  /\ IF basePref = NoBase
     THEN /\ Len(timers) < MaxTimers
          /\ timers' = SetTimer(BaseRetryMs)
          /\ periodicUpdatesStarted' = markPeriodicUpdatesStarted
          /\ tasks' = [tasks EXCEPT ![t] = IdleTask]
     ELSE /\ tasks' = [tasks EXCEPT ![t] =
                 [@ EXCEPT !.base = basePref, !.pc = "usedCurrencies"]]
          /\ UNCHANGED <<timers, periodicUpdatesStarted>>
  /\ UNCHANGED <<now, appId, basePref, accountCurrencies, providers,
                 initialFetchComplete, servicesInitialized, cache, lastWrite,
                 calls, ticks, balanceRefreshSent, schedVars>>

\* getUsedCurrencies answers
CycleUsedCurrencies(t) ==
  /\ tasks[t].kind = "cycle" /\ tasks[t].pc = "usedCurrencies"
  /\ LET targetCurrencies == getUsedCurrencies(basePref)
     IN IF targetCurrencies = <<>>
        THEN /\ tasks' = [tasks EXCEPT ![t] = [@ EXCEPT !.pc = "schedule"]]
             /\ UNCHANGED <<initialFetchComplete, balanceRefreshSent>>
        ELSE CycleLoop(t, [tasks[t] EXCEPT !.todo = targetCurrencies])
  /\ UNCHANGED <<now, appId, basePref, accountCurrencies, providers,
                 periodicUpdatesStarted, servicesInitialized, cache, lastWrite,
                 timers, calls, ticks, schedVars>>

\* a database query of the cycle throws: the caller's catch() runs
CycleFails(t) ==
  /\ tasks[t].kind = "cycle" /\ tasks[t].pc = "usedCurrencies"
  /\ periodicUpdatesStarted' = markPeriodicUpdatesStopped
  /\ tasks' = [tasks EXCEPT ![t] = IdleTask]
  /\ UNCHANGED <<now, appId, basePref, accountCurrencies, providers,
                 initialFetchComplete, servicesInitialized, cache, lastWrite,
                 timers, calls, ticks, balanceRefreshSent, schedVars>>

\* fetchAndCacheRates(currency, [base]) returned to the cycle
CycleNext(t) ==
  /\ tasks[t].kind = "cycle" /\ tasks[t].pc = "cycleNext"
  /\ CycleLoop(t, tasks[t])
  /\ UNCHANGED <<now, appId, basePref, accountCurrencies, providers,
                 periodicUpdatesStarted, servicesInitialized, cache, lastWrite,
                 timers, calls, ticks, schedVars>>

\* getNextUpdateDelay answers: the next cycle is put on a timer
CycleSchedule(t) ==
  /\ tasks[t].kind = "cycle" /\ tasks[t].pc = "schedule"
  /\ Len(timers) < MaxTimers
  /\ timers' = SetTimer(getNextUpdateDelay(appId))
  /\ periodicUpdatesStarted' = markPeriodicUpdatesStarted
  /\ tasks' = [tasks EXCEPT ![t] = IdleTask]
  /\ UNCHANGED <<now, appId, basePref, accountCurrencies, providers,
                 initialFetchComplete, servicesInitialized, cache, lastWrite,
                 calls, ticks, balanceRefreshSent, schedVars>>

\* a timer of the loop fires
TimerFire(i) ==
  /\ i \in 1..Len(timers)
  /\ timers[i].due <= now
  /\ timers' = SubSeq(timers, 1, i - 1) \o SubSeq(timers, i + 1, Len(timers))
  /\ startPeriodicUpdate
  /\ UNCHANGED <<now, appId, basePref, accountCurrencies, providers,
                 initialFetchComplete, servicesInitialized, cache, lastWrite,
                 calls, ticks, balanceRefreshSent, schedVars>>

initializeExchangeRateServices ==
  /\ ~servicesInitialized
  /\ servicesInitialized' = TRUE
  /\ providers' = initializeProviders(appId)
  /\ startPeriodicUpdate
  /\ UNCHANGED <<now, appId, basePref, accountCurrencies,
                 initialFetchComplete, cache, lastWrite, timers, calls, ticks,
                 balanceRefreshSent, schedVars>>

\* ------------------------------------------------------------ environment
ClockFrame ==
  UNCHANGED <<appId, basePref, accountCurrencies, providers,
              periodicUpdatesStarted, initialFetchComplete,
              servicesInitialized, cache, lastWrite, tasks, timers, calls,
              balanceRefreshSent, lastScheduleRun, pendingPrefs, schedules,
              rules, nextDates, transactions, closedAccounts, mut, mutQueue,
              syncEvents, sent, lastResult, importVars>>

Tick ==
  /\ ticks < MaxTicks
  /\ ticks' = ticks + 1
  /\ now' = now + TickSteps[(ticks % Len(TickSteps)) + 1]
  /\ UNCHANGED <<syncRuns, runsToday, postsToday>>
  /\ ClockFrame

SetBaseCurrency ==
  /\ basePref = NoBase
  /\ basePref' = "USD"
  /\ UNCHANGED <<now, appId, accountCurrencies, providers,
                 periodicUpdatesStarted, initialFetchComplete,
                 servicesInitialized, cache, lastWrite, tasks, timers, calls,
                 ticks, balanceRefreshSent, schedVars>>

\* ============================================================== schedules
SchedIds == {"s1", "s2"}
NoId == "none"
NoName == "null"
NoSchedule == [none |-> TRUE]
NoCond == [none |-> TRUE]
NullValue == [kind |-> "null"]
DateValue(d) == [kind |-> "date", date |-> d]
RecurValue(start, every) ==
  [kind |-> "recur", start |-> start, frequency |-> every]
IdValue(id) == [kind |-> "id", id |-> id]
Cond(op, field, value) == [op |-> op, field |-> field, value |-> value]
IdleMut == [kind |-> "idle"]

currentDay == today

\* rows of a table by id; db.delete_ leaves a tombstoned row
Live(table) == {r \in table : r.tombstone = 0}
Row(table, id) ==
  IF \E r \in Live(table) : r.id = id
  THEN CHOOSE r \in Live(table) : r.id = id ELSE NoRow
FreshId(table) == Cardinality(table) + 1

\* first condition on a field, or none
FirstCond(conditions, field) ==
  LET hits == {i \in 1..Len(conditions) : conditions[i].field = field}
  IN IF hits = {} THEN NoCond
     ELSE conditions[CHOOSE i \in hits : \A j \in hits : i <= j]

extractScheduleConds(conditions) ==
  LET Ops(field) ==
        IF field \in {"payee", "account"} THEN {"is"}
        ELSE IF field = "amount" THEN {"is", "isapprox", "isbetween"}
        ELSE {"is", "isapprox"}
      Find(field) ==
        LET hits == {i \in 1..Len(conditions) :
                       /\ conditions[i].field = field
                       /\ conditions[i].op \in Ops(field)}
        IN IF hits = {} THEN NoCond
           ELSE conditions[CHOOSE i \in hits : \A j \in hits : i <= j]
  IN [payee |-> Find("payee"), account |-> Find("account"),
      amount |-> Find("amount"), date |-> Find("date")]

\* first occurrence of a recurrence on or after a day; a literal date is
\* its own next date
getNextDate(dateCond, start) ==
  LET v == dateCond.value
  IN IF v.kind = "date" THEN v.date
     ELSE IF v.kind = "null" THEN NoDate
     ELSE IF start <= v.start THEN v.start
     ELSE v.start +
          ((start - v.start + v.frequency - 1) \div v.frequency) * v.frequency

\* the next_date column of the schedules view
NextDateOf(nd) ==
  IF nd = NoRow THEN NoDate
  ELSE IF nd.local_next_date_ts = nd.base_next_date_ts
  THEN nd.local_next_date ELSE nd.base_next_date

NextDateRow(id) ==
  IF \E r \in nextDates : r.schedule_id = id
  THEN CHOOSE r \in nextDates : r.schedule_id = id ELSE NoRow

\* q('schedules').select('*'): the row with the projections of its rule
ScheduleView(s) ==
  LET rule == Row(rules, s.rule)
      conds == IF rule = NoRow THEN extractScheduleConds(<<>>)
               ELSE extractScheduleConds(rule.conditions)
      Val(c) == IF c = NoCond THEN NullValue ELSE c.value
  IN [id |-> s.id, rule |-> s.rule, name |-> s.name,
      completed |-> s.completed, posts_transaction |-> s.posts_transaction,
      next_date |-> NextDateOf(NextDateRow(s.id)),
      _date |-> Val(conds.date), _payee |-> Val(conds.payee),
      _account |-> Val(conds.account), _amount |-> Val(conds.amount)]

getStatus(nextDate, completed, hasTrans, upcomingLength) ==
  IF completed THEN "completed"
  ELSE IF hasTrans THEN "paid"
  ELSE IF nextDate = currentDay THEN "due"
  ELSE IF nextDate > currentDay /\ nextDate <= currentDay + upcomingLength
  THEN "upcoming"
  ELSE IF nextDate < currentDay THEN "missed"
  ELSE "scheduled"

\* rows answered by getHasTransactionsQuery(schedules)
getHasTransactionsQuery(views) ==
  {[id |-> tr.id, schedule |-> tr.schedule, date |-> tr.date] :
     tr \in {x \in transactions :
               \E i \in 1..Len(views) :
                  x.schedule = views[i].id /\ x.date >= views[i].next_date}}

HasTransById(hasTransData) == {ToString(row.id) : row \in hasTransData}

\* new Set(hasTransData.filter(Boolean).map(row => row.schedule))
HasTrans(hasTransData) == {row.schedule : row \in hasTransData}

MissingDateOnly(dateCond) ==
  IF dateCond = NoCond
  THEN "A date condition is required to create a schedule" ELSE "ok"

\* the two checks createSchedule makes on the date condition
CreateValidation(dateCond) ==
  IF dateCond = NoCond
  THEN "A date condition is required to create a schedule"
  ELSE IF dateCond.value = NullValue THEN "Date is required"
  ELSE "ok"

storeVars == <<schedules, rules, nextDates, transactions, closedAccounts>>
historyVars == <<syncRuns, runsToday, postsToday>>

\* no step of the schedule engine touches the rate service
RateVarsQuiet ==
  UNCHANGED <<now, appId, basePref, accountCurrencies, providers,
              periodicUpdatesStarted, initialFetchComplete,
              servicesInitialized, cache, lastWrite, tasks, timers, ticks,
              balanceRefreshSent>>

\* nor, outside importSchedules, the import under way and the name tables
RatesQuiet == RateVarsQuiet /\ UNCHANGED importVars

\* no importSchedules call is under way
IdleImp == [pc |-> "idle"]

\* no schedules file
NoFile == [json |-> "none"]

MutatorFree == mut = IdleMut /\ mutQueue = <<>> /\ imp = IdleImp

\* ---------------------------------------------------------- createSchedule
\* the ids a fresh uuid can be: those no row of any table carries
UnusedIds ==
  {id \in SchedIds :
     /\ \A r \in schedules : r.id # id
     /\ \A nd \in nextDates : nd.schedule_id # id
     /\ \A r \in rules : \A k \in 1..Len(r.actions) :
          r.actions[k].op = "link-schedule" => r.actions[k].value # id}

\* createSchedule up to its first await
createSchedule(schedule, conditions) ==
  /\ MutatorFree
  /\ calls < MaxCalls
  /\ calls' = calls + 1
  /\ LET unused == UnusedIds
         given == schedule # NoSchedule /\ schedule.id # NoId
         dateCond == extractScheduleConds(conditions).date
         validation == CreateValidation(dateCond)
     IN /\ IF given THEN schedule.id \in unused ELSE unused # {}
        /\ IF validation # "ok"
           THEN /\ lastResult' = [op |-> "create", error |-> validation]
                /\ UNCHANGED mut
           ELSE /\ mut' =
                     [kind |-> "create",
                      pc |-> IF schedule # NoSchedule /\ schedule.name # NoName
                             THEN "checkName" ELSE "insertRule",
                      scheduleId |-> IF given THEN schedule.id
                                     ELSE CHOOSE id \in unused : TRUE,
                      schedule |-> schedule, conditions |-> conditions,
                      nextDate |-> getNextDate(dateCond, currentDay),
                      ruleId |-> 0, importing |-> FALSE, actions |-> <<>>]
                /\ UNCHANGED lastResult
  /\ UNCHANGED <<lastScheduleRun, pendingPrefs, storeVars, mutQueue,
                 syncEvents, historyVars, sent>>
  /\ RatesQuiet

NeverExists(name, scheduleId) == FALSE

checkIfScheduleExistsSameId(name, scheduleId) ==
  LET named == {r \in Live(schedules) : r.name = name}
  IN IF named = {} THEN FALSE
     ELSE (CHOOSE r \in named : TRUE).id = scheduleId

checkIfScheduleExists(name, scheduleId) ==
  LET named == {r \in Live(schedules) : r.name = name}
  IN IF named = {} THEN FALSE
     ELSE (CHOOSE r \in named : TRUE).id # scheduleId

CreateCheckName ==
  /\ mut.kind = "create" /\ mut.pc = "checkName"
  /\ IF checkIfScheduleExists(mut.schedule.name, mut.scheduleId)
     THEN /\ mut' = IdleMut
          /\ lastResult' =
               [op |-> "create",
                error |-> "Cannot create schedules with the same name"]
     ELSE /\ mut' = [mut EXCEPT !.pc = "insertRule"]
          /\ UNCHANGED lastResult
  /\ UNCHANGED <<lastScheduleRun, pendingPrefs, storeVars, mutQueue,
                 syncEvents, historyVars, sent, calls>>
  /\ RatesQuiet

CreateInsertRule ==
  /\ mut.kind = "create" /\ mut.pc = "insertRule"
  /\ LET ruleId == FreshId(rules)
     IN /\ rules' = rules \cup
             {[id |-> ruleId, stage |-> "null", conditionsOp |-> "and",
               conditions |-> mut.conditions,
               actions |-> <<[op |-> "link-schedule",
                              value |-> mut.scheduleId]>>,
               tombstone |-> 0]}
        /\ mut' = [mut EXCEPT !.pc = "insertNextDate", !.ruleId = ruleId]
  /\ UNCHANGED <<lastScheduleRun, pendingPrefs, schedules, nextDates,
                 transactions, closedAccounts, mutQueue, syncEvents,
                 historyVars, sent, lastResult, calls>>
  /\ RatesQuiet

CreateInsertNextDate ==
  /\ mut.kind = "create" /\ mut.pc = "insertNextDate"
  /\ nextDates' = nextDates \cup
       {[id |-> FreshId(nextDates), schedule_id |-> mut.scheduleId,
         local_next_date |-> mut.nextDate, local_next_date_ts |-> now,
         base_next_date |-> mut.nextDate, base_next_date_ts |-> now]}
  /\ mut' = [mut EXCEPT !.pc = "insertSchedule"]
  /\ UNCHANGED <<lastScheduleRun, pendingPrefs, schedules, rules,
                 transactions, closedAccounts, mutQueue, syncEvents,
                 historyVars, sent, lastResult, calls>>
  /\ RatesQuiet

CreateInsertSchedule ==
  /\ mut.kind = "create" /\ mut.pc = "insertSchedule"
  /\ schedules' = schedules \cup
       {[id |-> mut.scheduleId, rule |-> mut.ruleId,
         name |-> IF mut.schedule = NoSchedule THEN NoName
                  ELSE mut.schedule.name,
         completed |-> IF mut.schedule = NoSchedule THEN FALSE
                       ELSE IF "completed" \in DOMAIN mut.schedule
                       THEN mut.schedule.completed ELSE FALSE,
         posts_transaction |-> IF mut.schedule = NoSchedule THEN FALSE
                               ELSE mut.schedule.posts_transaction,
         tombstone |-> 0]}
  /\ IF mut.importing
     THEN /\ mut' = [mut EXCEPT !.pc = "importRule"]
          /\ UNCHANGED lastResult
     ELSE /\ mut' = IdleMut
          /\ lastResult' = [op |-> "create", id |-> mut.scheduleId]
  /\ UNCHANGED <<lastScheduleRun, pendingPrefs, rules, nextDates,
                 transactions, closedAccounts, mutQueue, syncEvents,
                 historyVars, sent, calls>>
  /\ RatesQuiet

\* ------------------------------------------------- advanceSchedulesService
SchedOrder == <<"s1", "s2">>

LoadCompletedToo ==
  LET views == [id \in {r.id : r \in Live(schedules)} |->
                  ScheduleView(Row(schedules, id))]
      loaded == SelectSeq(SchedOrder, LAMBDA id :
                  /\ id \in DOMAIN views
                  /\ views[id]._account # NullValue
                  /\ views[id]._account.id \notin closedAccounts)
  IN [i \in 1..Len(loaded) |-> views[loaded[i]]]

LoadClosedToo ==
  LET views == [id \in {r.id : r \in Live(schedules)} |->
                  ScheduleView(Row(schedules, id))]
      loaded == SelectSeq(SchedOrder, LAMBDA id :
                  /\ id \in DOMAIN views
                  /\ ~views[id].completed)
  IN [i \in 1..Len(loaded) |-> views[loaded[i]]]

\* q('schedules').filter({completed: false, '_account.closed': false})
LoadSchedules ==
  LET views == [id \in {r.id : r \in Live(schedules)} |->
                  ScheduleView(Row(schedules, id))]
  IN [i \in 1..Len(SelectSeq(SchedOrder, LAMBDA id :
          /\ id \in DOMAIN views
          /\ ~views[id].completed
          /\ views[id]._account # NullValue
          /\ views[id]._account.id \notin closedAccounts)) |->
        views[SelectSeq(SchedOrder, LAMBDA id :
          /\ id \in DOMAIN views
          /\ ~views[id].completed
          /\ views[id]._account # NullValue
          /\ views[id]._account.id \notin closedAccounts)[i]]]

\* setNextDate once the conditions are known: the next occurrence from the
\* current date; reset writes the base variant, otherwise the local one
setNextDateStampsNow(id, conditions, reset) ==
  LET dateCond == extractScheduleConds(conditions).date
      nd == NextDateRow(id)
  IN IF dateCond = NoCond \/ nd = NoRow THEN nextDates
     ELSE IF getNextDate(dateCond, currentDay) = NextDateOf(nd) THEN nextDates
     ELSE IF reset
     THEN (nextDates \ {nd}) \cup
          {[nd EXCEPT !.base_next_date = getNextDate(dateCond, currentDay),
                      !.base_next_date_ts = now]}
     ELSE (nextDates \ {nd}) \cup
          {[nd EXCEPT !.local_next_date = getNextDate(dateCond, currentDay),
                      !.local_next_date_ts = now]}

setNextDateFrom(id, conditions, reset) ==
  LET dateCond == extractScheduleConds(conditions).date
      nd == NextDateRow(id)
      nextDate == NextDateOf(nd)
  IN IF dateCond = NoCond THEN nextDates
     ELSE IF getNextDate(dateCond, currentDay) = nextDate THEN nextDates
     ELSE IF nd = NoRow THEN nextDates
     ELSE IF reset
     THEN (nextDates \ {nd}) \cup
          {[nd EXCEPT !.base_next_date = getNextDate(dateCond, currentDay),
                      !.base_next_date_ts = now]}
     ELSE (nextDates \ {nd}) \cup
          {[nd EXCEPT !.local_next_date = getNextDate(dateCond, currentDay),
                      !.local_next_date_ts = nd.base_next_date_ts]}

\* getRuleForSchedule(id): the loaded rule the schedule row points to
getRuleForSchedule(id) ==
  LET s == Row(schedules, id)
  IN IF s = NoRow THEN NoRow ELSE Row(rules, s.rule)

\* setNextDate({id}): conditions from the rule, start at the current date,
\* the local next date written; nothing is written when the rule is missing
\* (it throws)
setNextDate(id) ==
  IF getRuleForSchedule(id) = NoRow THEN nextDates
  ELSE setNextDateFrom(id, getRuleForSchedule(id).conditions, FALSE)

\* updateSchedule({schedule: {id, completed: true}}): no conditions, so the
\* batch only writes the row
updateSchedule(id, completed) ==
  LET s == Row(schedules, id)
  IN IF s = NoRow THEN schedules
     ELSE (schedules \ {s}) \cup {[s EXCEPT !.completed = completed]}

postTransactionToday(id) ==
  LET s == Row(schedules, id)
      view == ScheduleView(s)
  IN IF s = NoRow THEN {}
     ELSE IF view._account = NullValue THEN {}
     ELSE {[id |-> FreshId(transactions), payee |-> view._payee,
            account |-> view._account.id, amount |-> view._amount,
            date |-> currentDay, schedule |-> view.id, cleared |-> FALSE]}

\* the transaction postTransactionForSchedule({id}) adds, if any
postTransactionForSchedule(id) ==
  LET s == Row(schedules, id)
      view == ScheduleView(s)
  IN IF s = NoRow THEN {}
     ELSE IF view._account = NullValue THEN {}
     ELSE {[id |-> FreshId(transactions), payee |-> view._payee,
            account |-> view._account.id, amount |-> view._amount,
            date |-> view.next_date, schedule |-> view.id,
            cleared |-> FALSE]}

completeEventNoSuccess(type) == type \in {"error", "unauthorized"}

\* completeEvent of the 'sync' handler
completeEvent(type) == type \in {"success", "error", "unauthorized"}

\* the body of the handler of the 'sync' event
SyncHandler(type) ==
  /\ IF completeEvent(type) /\ lastScheduleRun # currentDay
     THEN /\ mutQueue' = Append(mutQueue, [syncSuccess |-> type = "success"])
          /\ pendingPrefs' = Append(pendingPrefs, currentDay)
          /\ syncRuns' = syncRuns + 1
     ELSE UNCHANGED <<mutQueue, pendingPrefs, syncRuns>>
  /\ UNCHANGED <<lastScheduleRun, storeVars, mut, runsToday, postsToday, sent,
                 lastResult, calls>>
  /\ RatesQuiet

\* a 'sync' event is delivered
SyncEvent(type) ==
  /\ syncEvents < MaxSyncEvents
  /\ syncEvents' = syncEvents + 1
  /\ SyncHandler(type)

\* a 'sync' event is delivered, the events not counted: the handler has not
\* fallen behind by more than MaxPending preference writes
SyncArrives(type) ==
  /\ Len(pendingPrefs) < MaxPending
  /\ UNCHANGED syncEvents
  /\ SyncHandler(type)

\* the write of prefs.savePrefs reaching the preferences
SavePrefsApply ==
  /\ pendingPrefs # <<>>
  /\ lastScheduleRun' = Head(pendingPrefs)
  /\ pendingPrefs' = Tail(pendingPrefs)
  /\ UNCHANGED <<storeVars, mut, mutQueue, syncEvents, historyVars, sent,
                 lastResult, calls>>
  /\ RatesQuiet

\* schedule/force-run-service
ForceRunService ==
  /\ calls < MaxCalls
  /\ calls' = calls + 1
  /\ mutQueue' = Append(mutQueue, [syncSuccess |-> TRUE])
  /\ UNCHANGED <<lastScheduleRun, pendingPrefs, storeVars, mut, syncEvents,
                 historyVars, sent, lastResult>>
  /\ RatesQuiet

\* the mutator takes the next queued run: the three queries
AdvanceStart ==
  /\ mut = IdleMut /\ mutQueue # <<>> /\ imp = IdleImp
  /\ mutQueue' = Tail(mutQueue)
  /\ mut' = [kind |-> "advance", syncSuccess |-> Head(mutQueue).syncSuccess,
             schedules |-> LoadSchedules,
             hasTrans |-> HasTrans(getHasTransactionsQuery(LoadSchedules)),
             upcomingLength |-> upcomingLengthDefault,
             idx |-> 1, failedToPost |-> <<>>, didPost |-> FALSE]
  /\ runsToday' = runsToday + 1
  /\ UNCHANGED <<lastScheduleRun, pendingPrefs, storeVars, syncEvents,
                 syncRuns, postsToday, sent, lastResult, calls>>
  /\ RatesQuiet

PostsRegardless(syncSuccess) == TRUE

\* if (syncSuccess): a due schedule is posted only after a successful sync
PostsNow(syncSuccess) == syncSuccess

\* one iteration of the loop over the loaded schedules
AdvanceStep ==
  /\ mut.kind = "advance" /\ mut.idx <= Len(mut.schedules)
  /\ LET schedule == mut.schedules[mut.idx]
         status == getStatus(schedule.next_date, schedule.completed,
                             schedule.id \in mut.hasTrans,
                             mut.upcomingLength)
         posted == postTransactionForSchedule(schedule.id)
     IN IF status = "paid"
        THEN /\ IF schedule._date = NullValue
                THEN UNCHANGED <<nextDates, schedules>>
                ELSE IF schedule._date.kind = "recur"
                THEN /\ nextDates' = setNextDate(schedule.id)
                     /\ UNCHANGED schedules
                ELSE IF schedule._date.date < currentDay
                THEN /\ schedules' = updateSchedule(schedule.id, TRUE)
                     /\ UNCHANGED nextDates
                ELSE UNCHANGED <<nextDates, schedules>>
             /\ mut' = [mut EXCEPT !.idx = @ + 1]
             /\ UNCHANGED <<transactions, postsToday>>
        ELSE IF /\ status \in {"due", "missed"}
                /\ schedule.posts_transaction
                /\ schedule._account # NullValue
        THEN IF PostsNow(mut.syncSuccess)
             THEN /\ transactions' = transactions \cup posted
                  /\ postsToday' =
                       [postsToday EXCEPT ![schedule.id] =
                          @ + Cardinality(posted)]
                  /\ mut' = [mut EXCEPT !.idx = @ + 1, !.didPost = TRUE]
                  /\ UNCHANGED <<nextDates, schedules>>
             ELSE /\ mut' = [mut EXCEPT
                               !.idx = @ + 1,
                               !.failedToPost = Append(@, schedule._payee)]
                  /\ UNCHANGED <<nextDates, schedules, transactions,
                                 postsToday>>
        ELSE /\ mut' = [mut EXCEPT !.idx = @ + 1]
             /\ UNCHANGED <<nextDates, schedules, transactions, postsToday>>
  /\ UNCHANGED <<lastScheduleRun, pendingPrefs, rules, closedAccounts,
                 mutQueue, syncEvents, syncRuns, runsToday, sent, lastResult,
                 calls>>
  /\ RatesQuiet

\* after the loop: the notification, and the mutator is released
AdvanceFinish ==
  /\ mut.kind = "advance" /\ mut.idx > Len(mut.schedules)
  /\ sent' = IF Len(mut.failedToPost) > 0
             THEN Append(sent, "schedules-offline")
             ELSE IF mut.didPost THEN Append(sent, "sync-event")
             ELSE sent
  /\ mut' = IdleMut
  /\ UNCHANGED <<lastScheduleRun, pendingPrefs, storeVars, mutQueue,
                 syncEvents, historyVars, lastResult, calls>>
  /\ RatesQuiet

\* midnight passes
NextDay ==
  /\ today < MaxDay
  /\ now' = (today + 1) * DayMs
  /\ syncRuns' = 0
  /\ runsToday' = IF mut.kind = "advance" THEN 1 ELSE 0
  /\ postsToday' = [s \in SchedIds |-> 0]
  /\ UNCHANGED ticks
  /\ ClockFrame


\* ---------------------------------------------------------- updateSchedule
AmountValue(n) == [kind |-> "amount", amount |-> n]
ScheduleCondFields == <<"payee", "account", "amount", "date">>

\* db.delete_(table, id)
delete_(table, id) ==
  {IF r.id = id THEN [r EXCEPT !.tombstone = 1] ELSE r : r \in table}

\* db.updateWithSchema(table, fields): the given fields of the row replaced
updateWithSchema(table, fields) ==
  {IF r.id = fields.id
   THEN [f \in DOMAIN r |-> IF f \in DOMAIN fields THEN fields[f] ELSE r[f]]
   ELSE r : r \in table}

\* updateRule({id, ...fields})
updateRule(fields) == updateWithSchema(rules, fields)

updateConditionsInPlaceOnly(conditions, newConditions) ==
  LET newScheduleConds == extractScheduleConds(newConditions)
  IN [i \in 1..Len(conditions) |->
        IF /\ conditions[i].field \in DOMAIN newScheduleConds
           /\ extractScheduleConds(conditions)[conditions[i].field] =
                conditions[i]
           /\ newScheduleConds[conditions[i].field] # NoCond
        THEN newScheduleConds[conditions[i].field] ELSE conditions[i]]

\* updateConditions: the condition object extractScheduleConds found for a
\* field is replaced where it stands (cond === r[0] compares objects, so a
\* later condition of equal content stays), the new ones are appended
updateConditions(conditions, newConditions) ==
  LET scheduleConds == extractScheduleConds(conditions)
      newScheduleConds == extractScheduleConds(newConditions)
      Found(i, f) ==
        /\ scheduleConds[f] = conditions[i]
        /\ \A j \in 1..(i - 1) : conditions[j] # conditions[i]
      Replaced(i) ==
        LET hits == {k \in 1..Len(ScheduleCondFields) :
                       Found(i, ScheduleCondFields[k])}
            first == CHOOSE k \in hits : \A j \in hits : k <= j
        IN IF hits = {} THEN conditions[i]
           ELSE IF newScheduleConds[ScheduleCondFields[first]] # NoCond
           THEN newScheduleConds[ScheduleCondFields[first]]
           ELSE conditions[i]
      updated == [i \in 1..Len(conditions) |-> Replaced(i)]
      addedFields ==
        SelectSeq(ScheduleCondFields,
                  LAMBDA f : /\ scheduleConds[f] = NoCond
                             /\ newScheduleConds[f] # NoCond)
      added == [i \in 1..Len(addedFields) |-> newScheduleConds[addedFields[i]]]
  IN updated \o added

\* conditions.find(c => c.field === field) || {}
FindCond(conditions, field) ==
  IF FirstCond(conditions, field) = NoCond THEN [none |-> TRUE]
  ELSE FirstCond(conditions, field)

stripType(fields) == [f \in DOMAIN fields \ {"type"} |-> fields[f]]

\* the account test of updateSchedule: both sides read oldConditions
AccountCondChanged(oldConditions, newConditions) ==
  FirstCond(oldConditions, "account") # FirstCond(oldConditions, "account")

DateCondChanged(oldConditions, newConditions) ==
  stripType(FindCond(oldConditions, "date")) #
    stripType(FindCond(newConditions, "date"))

RowUpdateAfterBatch == FALSE

\* db.updateWithSchema('schedules', schedule) is the last statement inside
\* the batchMessages callback
RowUpdateInBatch == TRUE

\* the conditions of the rule fixRuleForSchedule makes
FixRuleConditions ==
  <<Cond("isapprox", "date", DateValue(currentDay)),
    Cond("isapprox", "amount", AmountValue(0))>>

NoLinkAction(id) == <<>>

\* the actions of the rule fixRuleForSchedule makes
FixRuleActions(id) == <<[op |-> "link-schedule", value |-> id]>>

LiveIds == {r.id : r \in Live(schedules)}

schedFrame ==
  UNCHANGED <<lastScheduleRun, pendingPrefs, transactions, closedAccounts,
              mutQueue, syncEvents, historyVars, sent>>

\* updateSchedule up to its first await
updateScheduleCall(schedule, hasConditions, conditions, resetNextDate) ==
  /\ MutatorFree
  /\ calls < MaxCalls
  /\ calls' = calls + 1
  /\ schedule.id \in LiveIds
  /\ LET dateCond == extractScheduleConds(conditions).date
     IN IF "rule" \in DOMAIN schedule
        THEN /\ lastResult' =
                  [op |-> "update",
                   error |-> "You cannot change the rule of a schedule"]
             /\ UNCHANGED mut
        ELSE IF hasConditions /\ dateCond # NoCond /\ dateCond.value = NullValue
        THEN /\ lastResult' = [op |-> "update", error |-> "Date is required"]
             /\ UNCHANGED mut
        ELSE /\ mut' = [kind |-> "update",
                        pc |-> IF hasConditions THEN "getRule" ELSE "batch",
                        schedule |-> schedule,
                        hasConditions |-> hasConditions,
                        conditions |-> conditions,
                        resetNextDate |-> resetNextDate,
                        ruleId |-> 0, repaired |-> FALSE,
                        before |-> [next_date |->
                                      NextDateOf(NextDateRow(schedule.id)),
                                    today |-> currentDay]]
             /\ UNCHANGED lastResult
  /\ UNCHANGED storeVars
  /\ schedFrame
  /\ RatesQuiet

\* rule = await getRuleForSchedule(schedule.id)
UpdateGetRule ==
  /\ mut.kind = "update" /\ mut.pc = "getRule"
  /\ mut' = IF getRuleForSchedule(mut.schedule.id) = NoRow
            THEN [mut EXCEPT !.pc = "fixDelete"]
            ELSE [mut EXCEPT !.pc = "batch",
                             !.ruleId = getRuleForSchedule(mut.schedule.id).id]
  /\ UNCHANGED <<storeVars, lastResult, calls>>
  /\ schedFrame
  /\ RatesQuiet

\* fixRuleForSchedule: the bad rule is taken out
UpdateFixDelete ==
  /\ mut.kind = "update" /\ mut.pc = "fixDelete"
  /\ rules' = delete_(rules, Row(schedules, mut.schedule.id).rule)
  /\ mut' = [mut EXCEPT !.pc = "fixInsert"]
  /\ UNCHANGED <<schedules, nextDates, transactions, closedAccounts,
                 lastResult, calls>>
  /\ schedFrame
  /\ RatesQuiet

\* fixRuleForSchedule: insertRule
UpdateFixInsert ==
  /\ mut.kind = "update" /\ mut.pc = "fixInsert"
  /\ rules' = rules \cup
       {[id |-> FreshId(rules), stage |-> "null", conditionsOp |-> "and",
         conditions |-> FixRuleConditions,
         actions |-> FixRuleActions(mut.schedule.id), tombstone |-> 0]}
  /\ mut' = [mut EXCEPT !.pc = "fixRelink", !.ruleId = FreshId(rules)]
  /\ UNCHANGED <<schedules, nextDates, transactions, closedAccounts,
                 lastResult, calls>>
  /\ schedFrame
  /\ RatesQuiet

\* fixRuleForSchedule: the schedule row is pointed at the new rule
UpdateFixRelink ==
  /\ mut.kind = "update" /\ mut.pc = "fixRelink"
  /\ schedules' =
       updateWithSchema(schedules,
                        [id |-> mut.schedule.id, rule |-> mut.ruleId])
  /\ mut' = [mut EXCEPT !.pc = "batch", !.repaired = TRUE]
  /\ UNCHANGED <<rules, nextDates, transactions, closedAccounts, lastResult,
                 calls>>
  /\ schedFrame
  /\ RatesQuiet

\* the writes made inside the batchMessages callback
BatchRules(m) ==
  IF m.hasConditions
  THEN updateRule([id |-> m.ruleId,
                   conditions |->
                     updateConditions(Row(rules, m.ruleId).conditions,
                                      m.conditions)])
  ELSE rules

BatchNextDates(m) ==
  IF m.hasConditions
  THEN LET oldConditions == Row(rules, m.ruleId).conditions
           newConditions == updateConditions(oldConditions, m.conditions)
       IN IF \/ m.resetNextDate
             \/ AccountCondChanged(oldConditions, newConditions)
             \/ DateCondChanged(oldConditions, newConditions)
          THEN setNextDateFrom(m.schedule.id, newConditions, TRUE)
          ELSE nextDates
  ELSE IF m.resetNextDate
  THEN setNextDateFrom(m.schedule.id,
                       getRuleForSchedule(m.schedule.id).conditions, TRUE)
  ELSE nextDates

\* setNextDate({id, reset: true}) without conditions throws when the
\* schedule has no rule
BatchThrows(m) ==
  /\ ~m.hasConditions /\ m.resetNextDate
  /\ getRuleForSchedule(m.schedule.id) = NoRow

\* await batchMessages(...): its writes are applied together when it ends
UpdateBatch ==
  /\ mut.kind = "update" /\ mut.pc \in {"batch", "rowUpdate"}
  /\ IF mut.pc = "rowUpdate"
     THEN /\ schedules' = updateWithSchema(schedules, mut.schedule)
          /\ mut' = IdleMut
          /\ lastResult' = [op |-> "update", id |-> mut.schedule.id]
          /\ UNCHANGED <<rules, nextDates>>
     ELSE IF BatchThrows(mut)
     THEN /\ mut' = IdleMut
          /\ lastResult' = [op |-> "update",
                            error |-> "No rule found for schedule"]
          /\ UNCHANGED <<rules, nextDates, schedules>>
     ELSE /\ rules' = BatchRules(mut)
          /\ nextDates' = BatchNextDates(mut)
          /\ IF RowUpdateInBatch
             THEN /\ schedules' = updateWithSchema(schedules, mut.schedule)
                  /\ mut' = IdleMut
                  /\ lastResult' = [op |-> "update", id |-> mut.schedule.id,
                                    repaired |-> mut.repaired,
                                    reset |-> mut.resetNextDate,
                                    hasConditions |-> mut.hasConditions,
                                    conditions |-> mut.conditions,
                                    before |-> mut.before]
             ELSE /\ mut' = [mut EXCEPT !.pc = "rowUpdate"]
                  /\ UNCHANGED <<schedules, lastResult>>
  /\ UNCHANGED <<transactions, closedAccounts, calls>>
  /\ schedFrame
  /\ RatesQuiet

\* ------------------------------------------------------------ skipNextDate
\* start: nextDate => d.addDays(parseDate(nextDate), 1)
skipStart(nextDate) == nextDate + 1

\* setNextDate({id, start}) of skipNextDate: the conditions of the rule, the
\* next date of the view, the occurrence from start(nextDate), and the local
\* variant written under the timestamp of the base one; nothing is written
\* when the rule or the next-date row is missing (it throws)
skipSetNextDate(id) ==
  LET rule == getRuleForSchedule(id)
      dateCond == extractScheduleConds(rule.conditions).date
      nd == NextDateRow(id)
      nextDate == NextDateOf(nd)
      newNextDate == getNextDate(dateCond, skipStart(nextDate))
  IN IF rule = NoRow THEN nextDates
     ELSE IF dateCond = NoCond THEN nextDates
     ELSE IF newNextDate = nextDate THEN nextDates
     ELSE IF nd = NoRow THEN nextDates
     ELSE (nextDates \ {nd}) \cup
          {[nd EXCEPT !.local_next_date = newNextDate,
                      !.local_next_date_ts = nd.base_next_date_ts]}

\* schedule/skip-next-date taken up by the mutator
skipNextDate(id) ==
  /\ MutatorFree
  /\ calls < MaxCalls
  /\ calls' = calls + 1
  /\ id \in LiveIds
  /\ mut' = [kind |-> "skip", id |-> id]
  /\ UNCHANGED <<storeVars, lastResult>>
  /\ schedFrame
  /\ RatesQuiet

\* the queries and the write of setNextDate, and the mutator is released
SkipSetNextDate ==
  /\ mut.kind = "skip"
  /\ nextDates' = skipSetNextDate(mut.id)
  /\ mut' = IdleMut
  /\ lastResult' = [op |-> "skip", id |-> mut.id,
                    before |-> NextDateRow(mut.id),
                    date |-> ScheduleView(Row(schedules, mut.id))._date]
  /\ UNCHANGED <<schedules, rules, transactions, closedAccounts, calls>>
  /\ schedFrame
  /\ RatesQuiet

\* ---------------------------------------------------------- deleteSchedule
KeepRule(ruleId) == rules

\* db.delete_('rules', ruleId) inside the batch of deleteSchedule
DeleteBatchRules(ruleId) == delete_(rules, ruleId)

\* deleteSchedule up to its first await
deleteSchedule(id) ==
  /\ MutatorFree
  /\ calls < MaxCalls
  /\ calls' = calls + 1
  /\ id \in LiveIds
  /\ mut' = [kind |-> "delete", pc |-> "query", id |-> id, importing |-> FALSE]
  /\ UNCHANGED <<storeVars, lastResult>>
  /\ schedFrame
  /\ RatesQuiet

\* the rule id is read, then the batch deletes the rule and the schedule
DeleteQuery ==
  /\ mut.kind = "delete" /\ mut.pc = "query"
  /\ mut' = [kind |-> "delete", pc |-> "batch", id |-> mut.id,
             importing |-> mut.importing,
             ruleId |-> IF Row(schedules, mut.id) = NoRow THEN 0
                        ELSE Row(schedules, mut.id).rule]
  /\ UNCHANGED <<storeVars, lastResult, calls>>
  /\ schedFrame
  /\ RatesQuiet

DeleteBatch ==
  /\ mut.kind = "delete" /\ mut.pc = "batch"
  /\ rules' = DeleteBatchRules(mut.ruleId)
  /\ schedules' = delete_(schedules, mut.id)
  /\ mut' = IdleMut
  /\ lastResult' = IF mut.importing
                   THEN [op |-> "import", skipped |-> mut.id]
                   ELSE [op |-> "delete", id |-> mut.id, ruleId |-> mut.ruleId]
  /\ UNCHANGED <<nextDates, transactions, closedAccounts, calls>>
  /\ schedFrame
  /\ RatesQuiet

\* ------------------------------------------------------ names and lookups
\* a name is a sequence of characters; an id string is a value of its own
NameValue(name) == [kind |-> "name", name |-> name]

\* String.prototype.toLowerCase, character by character
toLowerCase(name) ==
  [i \in 1..Len(name) |-> IF name[i] = "A" THEN "a"
                          ELSE IF name[i] = "B" THEN "b" ELSE name[i]]

\* String.prototype.trim
RECURSIVE trimStart(_)
trimStart(name) ==
  IF name # <<>> /\ Head(name) = " " THEN trimStart(Tail(name)) ELSE name

RECURSIVE trimEnd(_)
trimEnd(name) ==
  IF name # <<>> /\ name[Len(name)] = " "
  THEN trimEnd(SubSeq(name, 1, Len(name) - 1)) ELSE name

trim(name) == trimEnd(trimStart(name))

\* normalizeName(name): null for a non-string and for a blank name
normalizeName(name) ==
  IF name = Null THEN Null
  ELSE IF trim(name) = <<>> THEN Null
  ELSE toLowerCase(trim(name))

\* getCanonicalRuleField(field)
getCanonicalRuleField(field) ==
  IF field = "acct" THEN "account"
  ELSE IF field = "description" THEN "payee"
  ELSE field

\* a Map and a Set of normalized names
EmptyLookup == [idsByName |-> <<>>, ambiguousNames |-> {}]

MapSet(map, key, value) ==
  [k \in DOMAIN map \cup {key} |-> IF k = key THEN value ELSE map[k]]

MapDelete(map, key) == [k \in DOMAIN map \ {key} |-> map[k]]

\* one iteration of a loop that keeps the last holder of a name
NameLookupLastWins(lookup, normalized, id) ==
  [lookup EXCEPT !.idsByName = MapSet(@, normalized, id)]

\* one iteration of the loop of buildNameLookup
NameLookupAdd(lookup, normalized, id) ==
  IF normalized \in DOMAIN lookup.idsByName
  THEN [idsByName |-> MapDelete(lookup.idsByName, normalized),
        ambiguousNames |-> lookup.ambiguousNames \cup {normalized}]
  ELSE IF normalized \notin lookup.ambiguousNames
  THEN [lookup EXCEPT !.idsByName = MapSet(@, normalized, id)]
  ELSE lookup

\* the loop of buildNameLookup over items[from..]
RECURSIVE NameLookupFrom(_, _, _)
NameLookupFrom(items, from, lookup) ==
  IF from > Len(items) THEN lookup
  ELSE IF normalizeName(items[from].name) = Null
  THEN NameLookupFrom(items, from + 1, lookup)
  ELSE NameLookupFrom(items, from + 1,
         NameLookupAdd(lookup, normalizeName(items[from].name),
                       items[from].id))

buildNameLookup(items) == NameLookupFrom(items, 1, EmptyLookup)

\* the loop of buildCategoryLookup: the last category of a name and group
\* is the one kept
RECURSIVE NameAndGroupFrom(_, _, _)
NameAndGroupFrom(items, from, map) ==
  IF from > Len(items) THEN map
  ELSE LET normalizedName == normalizeName(items[from].name)
           normalizedGroup == normalizeName(items[from].groupName)
       IN IF normalizedName = Null \/ normalizedGroup = Null
          THEN NameAndGroupFrom(items, from + 1, map)
          ELSE NameAndGroupFrom(items, from + 1,
                 MapSet(map, <<normalizedName, normalizedGroup>>,
                        items[from].id))

buildCategoryLookup(items) ==
  [idsByName |-> buildNameLookup(items).idsByName,
   ambiguousNames |-> buildNameLookup(items).ambiguousNames,
   idsByNameAndGroup |-> NameAndGroupFrom(items, 1, <<>>)]

\* the outcome of a mapping: the value, or the message of the Error thrown
Mapped(value) == [ok |-> TRUE, value |-> value]
Thrown(message) == [ok |-> FALSE, message |-> message]

\* a string value is a name or an id string
IsString(value) == value.kind \in {"name", "id"}

\* normalizeName of a value: an id string is its own normal form, a value
\* that is no string has none
NormalizedValue(value) ==
  IF value.kind = "name" THEN normalizeName(value.name)
  ELSE IF value.kind = "id" THEN <<value.id>>
  ELSE Null

\* mapNameValuesToIds({value, idsByName, ambiguousNames, entityLabel})
mapNameValuesToIds(value, lookup, entityLabel) ==
  IF ~IsString(value) THEN Mapped(value)
  ELSE IF NormalizedValue(value) = Null THEN Mapped(value)
  ELSE IF NormalizedValue(value) \in lookup.ambiguousNames
  THEN Thrown(<<entityLabel, "name is ambiguous">>)
  ELSE IF NormalizedValue(value) \notin DOMAIN lookup.idsByName
  THEN Thrown(<<entityLabel, "not found">>)
  ELSE Mapped(IdValue(lookup.idsByName[NormalizedValue(value)]))

mapCategoryByNameOnly(value, groupName, categoryLookup) ==
  mapNameValuesToIds(value, categoryLookup, "Category")

\* mapCategoryNameToId({value, groupName, categoryLookup})
mapCategoryNameToId(value, groupName, categoryLookup) ==
  LET normalizedName == NormalizedValue(value)
      normalizedGroup == normalizeName(groupName)
      scoped == <<normalizedName, normalizedGroup>>
  IN IF normalizedName = Null THEN Mapped(value)
     ELSE IF /\ normalizedGroup # Null
             /\ scoped \in DOMAIN categoryLookup.idsByNameAndGroup
     THEN Mapped(IdValue(categoryLookup.idsByNameAndGroup[scoped]))
     ELSE IF /\ normalizedGroup # Null
             /\ normalizedName \in categoryLookup.ambiguousNames
     THEN Thrown(<<"Category", "not found with group">>)
     ELSE IF normalizedName \in categoryLookup.ambiguousNames
     THEN Thrown(<<"Category", "name is ambiguous">>)
     ELSE IF normalizedName \notin DOMAIN categoryLookup.idsByName
     THEN Thrown(<<"Category", "not found">>)
     ELSE Mapped(IdValue(categoryLookup.idsByName[normalizedName]))

\* --------------------------------------------------------- importSchedules
SCHEDULE_TRANSFER_VERSION == 1

\* the content of a file: text JSON5 cannot parse, or the value it parses to
Unparsable == [json |-> "unparsable"]
NotAnObject == [json |-> "array"]
Payload(fields) == [json |-> "object", fields |-> fields]
Number(n) == <<"number", n>>
String(n) == <<"string", n>>
NotAnArray == [array |-> FALSE]
Array(items) == [array |-> TRUE, items |-> items]

\* a parser that accepts any version
parseAnyVersion(content) ==
  IF content.json = "unparsable"
  THEN Thrown(<<"Unable to parse schedules file as JSON5">>)
  ELSE IF content.json # "object"
  THEN Thrown(<<"Schedules file must be an object">>)
  ELSE IF \/ "schedules" \notin DOMAIN content.fields
          \/ ~content.fields.schedules.array
  THEN Thrown(<<"Schedules file must contain a schedules array">>)
  ELSE Mapped(content.fields)

\* parseScheduleTransfer(raw): the payload, or the Error thrown
parseScheduleTransfer(content) ==
  IF content.json = "unparsable"
  THEN Thrown(<<"Unable to parse schedules file as JSON5">>)
  ELSE IF content.json # "object"
  THEN Thrown(<<"Schedules file must be an object">>)
  ELSE IF \/ "version" \notin DOMAIN content.fields
          \/ content.fields.version # Number(SCHEDULE_TRANSFER_VERSION)
  THEN Thrown(<<"Unsupported schedules file version">>)
  ELSE IF \/ "schedules" \notin DOMAIN content.fields
          \/ ~content.fields.schedules.array
  THEN Thrown(<<"Schedules file must contain a schedules array">>)
  ELSE Mapped(content.fields)

\* db.getPayees(): the payees not deleted
getPayees == SelectSeq(payees, LAMBDA payee : payee.tombstone = 0)

\* the ids of new payees, in the order db.insertPayee hands them out
PayeeIds == <<"p1", "p2", "p3", "p4", "p5">>

\* the text of a string value
TextOf(value) == IF value.kind = "name" THEN value.name ELSE <<value.id>>

\* the state mapRuleEntriesForImport works on: the entries mapped so far,
\* the payees table and the payee lookup shared by the whole import
MapState(table, idsByName) ==
  [ok |-> TRUE, entries |-> <<>>, payees |-> table, idsByName |-> idsByName]

MapPush(st, entry) == [st EXCEPT !.entries = Append(@, entry)]

MapThrow(st, message) ==
  [ok |-> FALSE, message |-> message, payees |-> st.payees,
   idsByName |-> st.idsByName]

\* the entry without category_group and category_groups
WithoutCategoryMeta(entry) ==
  [f \in DOMAIN entry \ {"category_group", "category_groups"} |-> entry[f]]

\* one iteration of the loop of mapRuleEntriesForImport
MapRuleEntry(entry, st, lookups) ==
  IF "field" \notin DOMAIN entry THEN MapPush(st, entry)
  ELSE
    LET canonicalField == getCanonicalRuleField(entry.field)
        normalizedEntry == [entry EXCEPT !.field = canonicalField]
        value == normalizedEntry.value
    IN IF canonicalField = "account"
       THEN LET mapped == mapNameValuesToIds(value, lookups.accountLookup,
                                             "Account")
            IN IF mapped.ok
               THEN MapPush(st, [normalizedEntry EXCEPT
                                   !.value = mapped.value])
               ELSE MapThrow(st, mapped.message)
       ELSE IF canonicalField = "payee"
       THEN IF ~IsString(value) \/ NormalizedValue(value) = Null
            THEN MapPush(st, normalizedEntry)
            ELSE IF NormalizedValue(value) \in
                      lookups.payeeLookup.ambiguousNames
            THEN MapThrow(st, <<"Payee", "name is ambiguous">>)
            ELSE IF NormalizedValue(value) \in DOMAIN st.idsByName
            THEN MapPush(st, [normalizedEntry EXCEPT !.value =
                                IdValue(st.idsByName[NormalizedValue(value)])])
            ELSE LET payeeId == PayeeIds[Len(st.payees) + 1]
                 IN [ok |-> TRUE,
                     entries |-> Append(st.entries,
                                   [normalizedEntry EXCEPT
                                      !.value = IdValue(payeeId)]),
                     payees |-> Append(st.payees,
                                  [id |-> payeeId, name |-> TextOf(value),
                                   tombstone |-> 0]),
                     idsByName |-> MapSet(st.idsByName,
                                          NormalizedValue(value), payeeId)]
       ELSE IF canonicalField = "category"
       THEN IF ~IsString(value)
            THEN MapPush(st, WithoutCategoryMeta(normalizedEntry))
            ELSE LET mapped ==
                       mapCategoryNameToId(value,
                         IF "category_group" \in DOMAIN normalizedEntry
                         THEN normalizedEntry.category_group ELSE Null,
                         lookups.categoryLookup)
                 IN IF mapped.ok
                    THEN MapPush(st,
                           [WithoutCategoryMeta(normalizedEntry) EXCEPT
                              !.value = mapped.value])
                    ELSE MapThrow(st, mapped.message)
       ELSE MapPush(st, normalizedEntry)

\* mapRuleEntriesForImport(entries, lookups) from entries[from] on
RECURSIVE mapRuleEntriesForImport(_, _, _, _)
mapRuleEntriesForImport(entries, from, st, lookups) ==
  IF ~st.ok \/ from > Len(entries) THEN st
  ELSE mapRuleEntriesForImport(entries, from + 1,
         MapRuleEntry(entries[from], st, lookups), lookups)

ImportActionsUnfiltered(scheduleId, mappedActions) ==
  <<[op |-> "link-schedule", value |-> scheduleId]>> \o mappedActions

\* the actions importSchedules gives the rule: the link to the new schedule,
\* then the payload's actions without any link-schedule
ImportActions(scheduleId, mappedActions) ==
  <<[op |-> "link-schedule", value |-> scheduleId]>> \o
    SelectSeq(mappedActions, LAMBDA action : action.op # "link-schedule")

\* the first of the shape checks of importSchedules an entry fails
EntryShape(scheduleItem) ==
  IF "json" \in DOMAIN scheduleItem THEN "Invalid schedule entry"
  ELSE IF "rule" \notin DOMAIN scheduleItem
  THEN "Missing schedule rule payload"
  ELSE "ok"

\* scheduleItem?.name ?? null
ScheduleNameOf(scheduleItem) ==
  IF "name" \in DOMAIN scheduleItem THEN scheduleItem.name ELSE NoName

\* an entry that counts twice as skipped
ImportSkippedTwice(frame, message) ==
  [frame EXCEPT
     !.pc = "entry", !.next = @ + 1,
     !.result = [imported |-> @.imported, skipped |-> @.skipped + 2,
                 errors |-> Append(@.errors,
                   [scheduleName |-> ScheduleNameOf(frame.payload[frame.next]),
                    message |-> message])]]

\* the catch of the loop of importSchedules, after its cleanup
ImportSkipped(frame, message) ==
  [frame EXCEPT
     !.pc = "entry", !.next = @ + 1,
     !.result = [imported |-> @.imported, skipped |-> @.skipped + 1,
                 errors |-> Append(@.errors,
                   [scheduleName |-> ScheduleNameOf(frame.payload[frame.next]),
                    message |-> message])]]

\* result.imported++
ImportImported(frame) ==
  [frame EXCEPT !.pc = "entry", !.next = @ + 1,
                !.result = [@ EXCEPT !.imported = @ + 1]]

\* what the import leaves alone
ImportFrame ==
  /\ UNCHANGED <<accounts, categories, file, calls>>
  /\ schedFrame
  /\ RateVarsQuiet

\* importSchedules({content}) up to the loop over the entries
importSchedules(content) ==
  /\ MutatorFree
  /\ calls < MaxCalls
  /\ calls' = calls + 1
  /\ LET payload == parseScheduleTransfer(content)
     IN IF ~payload.ok
        THEN /\ lastResult' = [op |-> "import", error |-> payload.message]
             /\ UNCHANGED imp
        ELSE /\ imp' = [pc |-> "entry", next |-> 1,
                        payload |-> payload.value.schedules.items,
                        accountLookup |-> buildNameLookup(accounts),
                        payeeLookup |-> buildNameLookup(getPayees),
                        categoryLookup |-> buildCategoryLookup(categories),
                        result |-> [imported |-> 0, skipped |-> 0,
                                    errors |-> <<>>]]
             /\ UNCHANGED lastResult
  /\ UNCHANGED <<storeVars, mut, accounts, payees, categories, file>>
  /\ schedFrame
  /\ RateVarsQuiet

\* one entry of the payload: the shape checks, the conditions and the
\* actions mapped to ids, and createSchedule up to its first await
ImportEntry ==
  /\ imp.pc = "entry" /\ imp.next <= Len(imp.payload) /\ mut = IdleMut
  /\ UnusedIds # {}
  /\ LET scheduleItem == imp.payload[imp.next]
         conds == mapRuleEntriesForImport(scheduleItem.rule.conditions, 1,
                    MapState(payees, imp.payeeLookup.idsByName), imp)
         acts == mapRuleEntriesForImport(scheduleItem.rule.actions, 1,
                   MapState(conds.payees, conds.idsByName), imp)
         dateCond == extractScheduleConds(conds.entries).date
         validation == CreateValidation(dateCond)
         Sharing(frame, st) ==
           [frame EXCEPT !.payeeLookup.idsByName = st.idsByName]
     IN IF EntryShape(scheduleItem) # "ok"
        THEN /\ imp' = ImportSkipped(imp, <<EntryShape(scheduleItem)>>)
             /\ UNCHANGED <<mut, payees>>
        ELSE IF ~conds.ok
        THEN /\ imp' = ImportSkipped(Sharing(imp, conds), conds.message)
             /\ payees' = conds.payees
             /\ UNCHANGED mut
        ELSE IF ~acts.ok
        THEN /\ imp' = ImportSkipped(Sharing(imp, acts), acts.message)
             /\ payees' = acts.payees
             /\ UNCHANGED mut
        ELSE IF validation # "ok"
        THEN /\ imp' = ImportSkipped(Sharing(imp, acts), <<validation>>)
             /\ payees' = acts.payees
             /\ UNCHANGED mut
        ELSE /\ imp' = [Sharing(imp, acts) EXCEPT !.pc = "wait"]
             /\ payees' = acts.payees
             /\ mut' =
                  [kind |-> "create",
                   pc |-> IF scheduleItem.name # NoName
                          THEN "checkName" ELSE "insertRule",
                   scheduleId |-> CHOOSE id \in UnusedIds : TRUE,
                   schedule |->
                     [id |-> NoId, name |-> scheduleItem.name,
                      posts_transaction |-> scheduleItem.posts_transaction,
                      completed |-> scheduleItem.completed],
                   conditions |-> conds.entries,
                   nextDate |-> getNextDate(dateCond, currentDay),
                   ruleId |-> 0, importing |-> TRUE,
                   actions |-> acts.entries,
                   stage |-> scheduleItem.rule.stage,
                   conditionsOp |->
                     IF scheduleItem.rule.conditionsOp = "null"
                     THEN "and" ELSE scheduleItem.rule.conditionsOp]
  /\ UNCHANGED <<storeVars, lastResult>>
  /\ ImportFrame

\* updateRule validates the rule it is given
RuleAccepted(stage, conditionsOp) ==
  stage \in {"null", "pre", "post"} /\ conditionsOp \in {"and", "or"}

\* importSchedules after createSchedule: the rule gets the payload's stage,
\* conditionsOp and actions
ImportUpdateRule ==
  /\ mut.kind = "create" /\ mut.pc = "importRule"
  /\ RuleAccepted(mut.stage, mut.conditionsOp)
  /\ rules' = updateRule([id |-> getRuleForSchedule(mut.scheduleId).id,
                          stage |-> mut.stage,
                          conditionsOp |-> mut.conditionsOp,
                          conditions |-> mut.conditions,
                          actions |-> ImportActions(mut.scheduleId,
                                                    mut.actions)])
  /\ mut' = IdleMut
  /\ lastResult' = [op |-> "import", id |-> mut.scheduleId]
  /\ UNCHANGED <<schedules, nextDates, transactions, closedAccounts, calls>>
  /\ schedFrame
  /\ RatesQuiet

\* importSchedules after createSchedule: updateRule throws, the catch
\* deletes the schedule just made
ImportFails ==
  /\ mut.kind = "create" /\ mut.pc = "importRule"
  /\ ~RuleAccepted(mut.stage, mut.conditionsOp)
  /\ mut' = [kind |-> "delete", pc |-> "query", id |-> mut.scheduleId,
             importing |-> TRUE]
  /\ UNCHANGED <<storeVars, lastResult, calls>>
  /\ schedFrame
  /\ RatesQuiet

\* the entry's createSchedule, updateRule or cleanup has ended: the entry
\* is counted
ImportEntryDone ==
  /\ imp.pc = "wait" /\ mut = IdleMut
  /\ imp' = IF lastResult.op = "import" /\ "id" \in DOMAIN lastResult
            THEN ImportImported(imp)
            ELSE IF "error" \in DOMAIN lastResult
            THEN ImportSkipped(imp, <<lastResult.error>>)
            ELSE ImportSkipped(imp, <<"updateRule rejected the rule">>)
  /\ UNCHANGED <<storeVars, lastResult, mut, payees>>
  /\ ImportFrame

\* importSchedules returns its result
ImportReturn ==
  /\ imp.pc = "entry" /\ imp.next > Len(imp.payload) /\ mut = IdleMut
  /\ imp' = IdleImp
  /\ lastResult' = [op |-> "import", result |-> imp.result,
                    payload |-> imp.payload]
  /\ UNCHANGED <<storeVars, mut, payees>>
  /\ ImportFrame

\* --------------------------------------------------------- exportSchedules
\* new Map(items.map(item => [item.id, item.name]))
NamesById(items) ==
  [id \in {items[i].id : i \in 1..Len(items)} |->
     items[CHOOSE i \in 1..Len(items) :
             /\ items[i].id = id
             /\ \A j \in 1..Len(items) : items[j].id = id => j <= i].name]

GroupNamesById(items) ==
  [id \in {items[i].id : i \in 1..Len(items)} |->
     items[CHOOSE i \in 1..Len(items) :
             /\ items[i].id = id
             /\ \A j \in 1..Len(items) : items[j].id = id => j <= i].groupName]

\* mapIdValuesToNames(value, namesById)
mapIdValuesToNames(value, namesById) ==
  IF value.kind = "id" /\ value.id \in DOMAIN namesById
  THEN NameValue(namesById[value.id])
  ELSE value

\* an export that leaves the group of a category out
ExportEntryWithoutGroup(entry) ==
  IF "field" \notin DOMAIN entry THEN entry
  ELSE
    LET canonicalField == getCanonicalRuleField(entry.field)
        normalizedEntry == [entry EXCEPT !.field = canonicalField]
    IN IF canonicalField = "account"
       THEN [normalizedEntry EXCEPT !.value =
               mapIdValuesToNames(@, NamesById(accounts))]
       ELSE IF canonicalField = "payee"
       THEN [normalizedEntry EXCEPT !.value =
               mapIdValuesToNames(@, NamesById(getPayees))]
       ELSE IF canonicalField = "category"
       THEN [normalizedEntry EXCEPT !.value =
               mapIdValuesToNames(@, NamesById(categories))]
       ELSE normalizedEntry

\* one entry of mapRuleEntriesForExport
ExportEntry(entry) ==
  IF "field" \notin DOMAIN entry THEN entry
  ELSE
    LET canonicalField == getCanonicalRuleField(entry.field)
        normalizedEntry == [entry EXCEPT !.field = canonicalField]
        value == normalizedEntry.value
        groups == GroupNamesById(categories)
        named == [normalizedEntry EXCEPT !.value =
                    mapIdValuesToNames(@, NamesById(categories))]
    IN IF canonicalField = "account"
       THEN [normalizedEntry EXCEPT !.value =
               mapIdValuesToNames(@, NamesById(accounts))]
       ELSE IF canonicalField = "payee"
       THEN [normalizedEntry EXCEPT !.value =
               mapIdValuesToNames(@, NamesById(getPayees))]
       ELSE IF canonicalField = "category"
       THEN IF /\ value.kind = "id" /\ value.id \in DOMAIN groups
               /\ groups[value.id] # Null /\ groups[value.id] # <<>>
            THEN [f \in DOMAIN named \cup {"category_group"} |->
                    IF f = "category_group" THEN groups[value.id]
                    ELSE named[f]]
            ELSE named
       ELSE normalizedEntry

\* mapRuleEntriesForExport(entries, names)
mapRuleEntriesForExport(entries) ==
  [i \in 1..Len(entries) |-> ExportEntry(entries[i])]

\* the order in which the schedules query returns the rows
ScheduleOrder == <<"s1", "s2">>

\* the entry exportSchedules writes for a schedule
ExportedSchedule(schedule) ==
  LET rule == Row(rules, schedule.rule)
      conditionsSource == IF rule = NoRow THEN <<>> ELSE rule.conditions
      actionsSource == IF rule = NoRow THEN <<>> ELSE rule.actions
  IN [name |-> schedule.name,
      posts_transaction |-> schedule.posts_transaction,
      completed |-> schedule.completed,
      rule |-> [stage |-> IF rule = NoRow THEN "null" ELSE rule.stage,
                conditionsOp |-> IF rule = NoRow THEN "and"
                                 ELSE rule.conditionsOp,
                conditions |-> mapRuleEntriesForExport(conditionsSource),
                actions |->
                  SelectSeq(mapRuleEntriesForExport(actionsSource),
                            LAMBDA action : action.op # "link-schedule")]]

\* exportSchedules(): the file holds one entry per live schedule
exportSchedules ==
  /\ MutatorFree
  /\ file = NoFile
  /\ LET ids == SelectSeq(ScheduleOrder, LAMBDA id : id \in LiveIds)
     IN file' = Payload(
          [version |-> Number(SCHEDULE_TRANSFER_VERSION),
           schedules |-> Array([i \in 1..Len(ids) |->
                            ExportedSchedule(Row(schedules, ids[i]))])])
  /\ lastResult' = [op |-> "export"]
  /\ UNCHANGED <<storeVars, mut, imp, accounts, payees, categories, calls>>
  /\ schedFrame
  /\ RateVarsQuiet

\* db.deletePayee({id}) once the file is written
deletePayee(id) ==
  /\ MutatorFree
  /\ file # NoFile
  /\ \E i \in 1..Len(payees) : payees[i].id = id /\ payees[i].tombstone = 0
  /\ payees' = [i \in 1..Len(payees) |->
                  IF payees[i].id = id
                  THEN [payees[i] EXCEPT !.tombstone = 1] ELSE payees[i]]
  /\ UNCHANGED <<storeVars, mut, imp, accounts, categories, file, calls,
                 lastResult>>
  /\ schedFrame
  /\ RateVarsQuiet

\* one of the three writes of createSchedule throws
CreateWriteFails ==
  /\ mut.kind = "create"
  /\ mut.pc \in {"insertRule", "insertNextDate", "insertSchedule"}
  /\ mut' = IdleMut
  /\ lastResult' = [op |-> "create", error |-> "write failed",
                    scheduleId |-> mut.scheduleId]
  /\ UNCHANGED <<storeVars, calls>>
  /\ schedFrame
  /\ RatesQuiet

\* ========================================================= specifications
SchedQuiet ==
  /\ lastScheduleRun = NoDate /\ pendingPrefs = <<>> /\ schedules = {}
  /\ rules = {} /\ nextDates = {} /\ transactions = {}
  /\ closedAccounts = {} /\ mut = IdleMut /\ mutQueue = <<>>
  /\ syncEvents = 0 /\ syncRuns = 0 /\ runsToday = 0
  /\ postsToday = [s \in SchedIds |-> 0] /\ sent = <<>>
  /\ lastResult = [op |-> "none"]
  /\ imp = IdleImp /\ accounts = <<>> /\ payees = <<>> /\ categories = <<>>
  /\ file = NoFile

DateArgs == {NoDate, 0}

\* the rate service after the application initialised it
InitRates ==
  /\ now = 0 /\ appId \in BOOLEAN /\ basePref \in {NoBase, "USD"}
  /\ accountCurrencies = {}
  /\ providers = initializeProviders(appId) /\ periodicUpdatesStarted = TRUE
  /\ initialFetchComplete = FALSE /\ servicesInitialized = TRUE
  /\ cache = {} /\ lastWrite = [k \in Currencies \X Currencies \X Days |-> NoRow]
  /\ tasks = [t \in TaskIds |-> IdleTask]
  /\ timers = <<>> /\ calls = 0 /\ ticks = 0 /\ balanceRefreshSent = 0
  /\ SchedQuiet

NextRates ==
  \/ \E from \in Currencies : \E to \in Currencies, d \in DateArgs :
       (from = "EUR" \/ from = to) /\ GetRateCall(from, to, d)
  \/ \E t \in TaskIds : ReadCached(t)
  \/ \E t \in TaskIds : AgeLimit(t)
  \/ \E t \in TaskIds : HistStep(t)
  \/ \E t \in TaskIds, o \in ProviderOutcomes : FetchStep(t, o)
  \/ \E t \in TaskIds : ReadFresh(t)
  \/ \E t \in TaskIds : ReadReverse(t)
  \/ \E t \in TaskIds : GetRateReturn(t)
  \/ \E from \in Currencies : \E to \in Currencies \ {from} :
       \E r \in Rates, d \in DateArgs : addManualRate(from, to, r, d)
  \/ Tick
  \/ NextDay

SpecRates == InitRates /\ [][NextRates]_vars

\* the process at start, before initializeExchangeRateServices
InitLoop ==
  /\ now = 0 /\ appId = FALSE /\ basePref \in {NoBase, "USD"}
  /\ accountCurrencies \in {{}, {NoCurrency}, {NoCurrency, "EUR"}}
  /\ providers = <<>> /\ periodicUpdatesStarted = FALSE
  /\ initialFetchComplete = FALSE /\ servicesInitialized = FALSE
  /\ cache = {} /\ lastWrite = [k \in Currencies \X Currencies \X Days |-> NoRow]
  /\ tasks = [t \in TaskIds |-> IdleTask]
  /\ timers = <<>> /\ calls = 0 /\ ticks = 0 /\ balanceRefreshSent = 0
  /\ SchedQuiet

LoopOutcomes ==
  ProviderFailures \cup {o \in ProviderAnswers : o.timestamp = NoTimestamp}

NextLoop ==
  \/ \E to \in Currencies : calls = 0 /\ GetRateCall("EUR", to, NoDate)
  \/ \E t \in TaskIds : ReadCached(t)
  \/ \E t \in TaskIds : AgeLimit(t)
  \/ \E t \in TaskIds : InitProv(t)
  \/ \E t \in TaskIds, o \in LoopOutcomes : FetchStep(t, o)
  \/ \E t \in TaskIds : ReadFresh(t)
  \/ \E t \in TaskIds : ReadReverse(t)
  \/ \E t \in TaskIds : GetRateReturn(t)
  \/ \E t \in TaskIds : CycleReadBase(t)
  \/ \E t \in TaskIds : CycleUsedCurrencies(t)
  \/ \E t \in TaskIds : CycleFails(t)
  \/ \E t \in TaskIds : CycleNext(t)
  \/ \E t \in TaskIds : CycleSchedule(t)
  \/ \E i \in 1..MaxTimers : TimerFire(i)
  \/ initializeExchangeRateServices
  \/ SetBaseCurrency
  \/ Tick

SpecLoop == InitLoop /\ [][NextLoop]_vars

\* a budget with one schedule due on day 0, linked to account a1
FirstDateValues == {DateValue(0), RecurValue(0, 1)}

\* the accounts, payees and categories of that budget
BudgetEntities ==
  /\ imp = IdleImp
  /\ accounts = <<[id |-> "a1", name |-> <<"a">>],
                  [id |-> "a2", name |-> <<"b">>]>>
  /\ payees = <<[id |-> "p1", name |-> <<"a">>, tombstone |-> 0]>>
  /\ categories = <<[id |-> "c1", name |-> <<"a">>, groupName |-> <<"b">>]>>
  /\ file = NoFile

InitSched ==
  /\ now = 0 /\ appId = FALSE /\ basePref = NoBase
  /\ accountCurrencies = {}
  /\ providers = <<>> /\ periodicUpdatesStarted = FALSE
  /\ initialFetchComplete = FALSE /\ servicesInitialized = FALSE
  /\ cache = {} /\ lastWrite = [k \in Currencies \X Currencies \X Days |-> NoRow]
  /\ tasks = [t \in TaskIds |-> IdleTask]
  /\ timers = <<>> /\ calls = 0 /\ ticks = 0 /\ balanceRefreshSent = 0
  /\ lastScheduleRun = NoDate /\ pendingPrefs = <<>>
  /\ \E dv \in FirstDateValues :
       rules = {[id |-> 1, stage |-> "null", conditionsOp |-> "and",
                 conditions |-> <<Cond("is", "payee", IdValue("p1")),
                                  Cond("is", "account", IdValue("a1")),
                                  Cond("is", "date", dv)>>,
                 actions |-> <<[op |-> "link-schedule", value |-> "s1"]>>,
                 tombstone |-> 0]}
  /\ \E posts \in BOOLEAN :
       schedules = {[id |-> "s1", rule |-> 1, name |-> "rent",
                     completed |-> FALSE, posts_transaction |-> posts,
                     tombstone |-> 0]}
  /\ nextDates = {[id |-> 1, schedule_id |-> "s1", local_next_date |-> 0,
                   local_next_date_ts |-> 0, base_next_date |-> 0,
                   base_next_date_ts |-> 0]}
  /\ transactions = {} /\ closedAccounts \in {{}, {"a1"}}
  /\ mut = IdleMut /\ mutQueue = <<>>
  /\ syncEvents = 0 /\ syncRuns = 0 /\ runsToday = 0
  /\ postsToday = [s \in SchedIds |-> 0] /\ sent = <<>>
  /\ lastResult = [op |-> "none"]
  /\ BudgetEntities

ScheduleInputs ==
  {NoSchedule,
   [id |-> NoId, name |-> "rent", posts_transaction |-> TRUE],
   [id |-> "s2", name |-> NoName, posts_transaction |-> TRUE]}

ConditionInputs ==
  {<<Cond("is", "payee", IdValue("p1"))>>,
   <<Cond("is", "payee", IdValue("p1")), Cond("is", "date", NullValue)>>,
   <<Cond("is", "account", IdValue("a1")), Cond("is", "date", DateValue(1))>>,
   <<Cond("is", "account", IdValue("a1")),
     Cond("is", "date", RecurValue(0, 2))>>,
   <<Cond("is", "payee", IdValue("p1")), Cond("is", "date", DateValue(1))>>}

SyncTypes == {"start", "success", "error", "unauthorized"}

NextSched ==
  \/ \E schedule \in ScheduleInputs, conditions \in ConditionInputs :
       createSchedule(schedule, conditions)
  \/ CreateCheckName
  \/ CreateInsertRule
  \/ CreateInsertNextDate
  \/ CreateInsertSchedule
  \/ \E type \in SyncTypes : SyncEvent(type)
  \/ SavePrefsApply
  \/ ForceRunService
  \/ AdvanceStart
  \/ AdvanceStep
  \/ AdvanceFinish
  \/ NextDay

SpecSched == InitSched /\ [][NextSched]_vars

\* the schedule engine while sync is down on day 0 and has recovered on every
\* later day; the event loop runs every pending step, the days pass and
\* 'sync' events with type 'success' keep arriving
RecoveredTypes == IF today = 0 THEN SyncTypes ELSE {"start", "success"}

NextRetry ==
  \/ \E type \in RecoveredTypes : SyncArrives(type)
  \/ SavePrefsApply
  \/ AdvanceStart
  \/ AdvanceStep
  \/ AdvanceFinish
  \/ NextDay

SpecRetry ==
  /\ InitSched
  /\ [][NextRetry]_vars
  /\ WF_vars(SavePrefsApply)
  /\ WF_vars(AdvanceStart)
  /\ WF_vars(AdvanceStep)
  /\ WF_vars(AdvanceFinish)
  /\ WF_vars(NextDay)
  /\ SF_vars(SyncArrives("success"))

\* the editing operations of the schedules app on the budget of InitSched
UpdateScheduleInputs ==
  {[id |-> "s1"], [id |-> "s2", posts_transaction |-> FALSE],
   [id |-> "s1", rule |-> 9], [id |-> "s2", name |-> "rent"]}

UpdateConditionInputs ==
  {<<Cond("is", "account", IdValue("a2"))>>,
   <<Cond("is", "date", DateValue(1))>>,
   <<Cond("is", "date", RecurValue(0, 2))>>,
   <<Cond("is", "date", NullValue)>>,
   <<[op |-> "is", field |-> "date", value |-> RecurValue(0, 1),
      type |-> "date"]>>}

\* a payload of one entry whose names the budget of InitSched resolves
ImportItems ==
  [name : {NoName, "rent"}, posts_transaction : {TRUE}, completed : {FALSE},
   rule : [stage : {"null", "invalid-stage"}, conditionsOp : {"null"},
           conditions : {<<Cond("is", "payee", NameValue(<<"A">>))>>,
                         <<Cond("is", "account", NameValue(<<"a", " ">>)),
                           Cond("is", "date", DateValue(1))>>},
           actions : {<<>>,
                      <<[op |-> "link-schedule", value |-> "s9"],
                        [op |-> "set", value |-> "x"]>>}]]

ImportInputs ==
  {Payload([version |-> Number(SCHEDULE_TRANSFER_VERSION),
            schedules |-> Array(<<scheduleItem>>)]) :
     scheduleItem \in ImportItems}

NextEdit ==
  \/ \E schedule \in ScheduleInputs, conditions \in ConditionInputs :
       createSchedule(schedule, conditions)
  \/ CreateCheckName
  \/ CreateInsertRule
  \/ CreateInsertNextDate
  \/ CreateInsertSchedule
  \/ CreateWriteFails
  \/ \E schedule \in UpdateScheduleInputs, resetNextDate \in BOOLEAN :
       \/ updateScheduleCall(schedule, FALSE, <<>>, resetNextDate)
       \/ \E conditions \in UpdateConditionInputs :
            updateScheduleCall(schedule, TRUE, conditions, resetNextDate)
  \/ UpdateGetRule
  \/ UpdateBatch
  \/ \E id \in SchedIds : deleteSchedule(id)
  \/ DeleteQuery
  \/ DeleteBatch
  \/ \E content \in ImportInputs : importSchedules(content)
  \/ ImportEntry
  \/ ImportUpdateRule
  \/ ImportFails
  \/ ImportEntryDone
  \/ ImportReturn
  \/ NextDay

SpecEdit == InitSched /\ [][NextEdit]_vars

\* skips of the next date among edits of the schedules and day changes
NextSkip ==
  \/ \E schedule \in ScheduleInputs, conditions \in ConditionInputs :
       createSchedule(schedule, conditions)
  \/ CreateCheckName
  \/ CreateInsertRule
  \/ CreateInsertNextDate
  \/ CreateInsertSchedule
  \/ \E schedule \in UpdateScheduleInputs, resetNextDate \in BOOLEAN :
       \/ updateScheduleCall(schedule, FALSE, <<>>, resetNextDate)
       \/ \E conditions \in UpdateConditionInputs :
            updateScheduleCall(schedule, TRUE, conditions, resetNextDate)
  \/ UpdateGetRule
  \/ UpdateBatch
  \/ \E id \in SchedIds : skipNextDate(id)
  \/ SkipSetNextDate
  \/ NextDay

SpecSkip == InitSched /\ [][NextSkip]_vars

\* the budget of InitSched after the rule of its schedule was deleted
InitRepair ==
  /\ now = 0 /\ appId = FALSE /\ basePref = NoBase
  /\ accountCurrencies = {}
  /\ providers = <<>> /\ periodicUpdatesStarted = FALSE
  /\ initialFetchComplete = FALSE /\ servicesInitialized = FALSE
  /\ cache = {} /\ lastWrite = [k \in Currencies \X Currencies \X Days |-> NoRow]
  /\ tasks = [t \in TaskIds |-> IdleTask]
  /\ timers = <<>> /\ calls = 0 /\ ticks = 0 /\ balanceRefreshSent = 0
  /\ lastScheduleRun = NoDate /\ pendingPrefs = <<>>
  /\ \E dv \in FirstDateValues, gone \in {0, 1} :
       rules = {[id |-> 1, stage |-> "null", conditionsOp |-> "and",
                 conditions |-> <<Cond("is", "payee", IdValue("p1")),
                                  Cond("is", "account", IdValue("a1")),
                                  Cond("is", "date", dv)>>,
                 actions |-> <<[op |-> "link-schedule", value |-> "s1"]>>,
                 tombstone |-> gone]}
  /\ \E posts \in BOOLEAN :
       schedules = {[id |-> "s1", rule |-> 1, name |-> "rent",
                     completed |-> FALSE, posts_transaction |-> posts,
                     tombstone |-> 0]}
  /\ nextDates = {[id |-> 1, schedule_id |-> "s1", local_next_date |-> 0,
                   local_next_date_ts |-> 0, base_next_date |-> 0,
                   base_next_date_ts |-> 0]}
  /\ transactions = {} /\ closedAccounts = {}
  /\ mut = IdleMut /\ mutQueue = <<>>
  /\ syncEvents = 0 /\ syncRuns = 0 /\ runsToday = 0
  /\ postsToday = [s \in SchedIds |-> 0] /\ sent = <<>>
  /\ lastResult = [op |-> "none"]
  /\ BudgetEntities

NextRepair ==
  \/ \E resetNextDate \in BOOLEAN :
       \/ updateScheduleCall([id |-> "s1"], FALSE, <<>>, resetNextDate)
       \/ \E conditions \in UpdateConditionInputs :
            \E schedule \in {[id |-> "s1"],
                             [id |-> "s1", posts_transaction |-> FALSE]} :
              updateScheduleCall(schedule, TRUE, conditions, resetNextDate)
  \/ UpdateGetRule
  \/ UpdateFixDelete
  \/ UpdateFixInsert
  \/ UpdateFixRelink
  \/ UpdateBatch
  \/ NextDay

SpecRepair == InitRepair /\ [][NextRepair]_vars

\* name resolution on its own: every table of up to MaxItems entities, and
\* every reference into it
EntityNames ==
  {<<>>, <<" ">>, <<"a">>, <<"A">>, <<" ", "a">>, <<"a", " ">>, <<"b">>,
   <<"a", "b">>}
CategoryNames == {<<"a">>, <<"A", " ">>, <<"b">>}
GroupNames == {<<>>, <<"a">>, <<" ", "A">>, <<"b">>}
EntityIds == <<"e1", "e2", "e3", "e4">>

NameTables ==
  UNION {{[i \in 1..n |-> [id |-> EntityIds[i], name |-> names[i]]] :
            names \in [1..n -> EntityNames]} : n \in 0..MaxItems}

\* a category row carries the name of its group, or null when it has none
CategoryTables ==
  UNION {{[i \in 1..n |-> [id |-> EntityIds[i], name |-> names[i],
                           groupName |-> groups[i]]] :
            names \in [1..n -> CategoryNames],
            groups \in [1..n -> (GroupNames \ {<<>>}) \cup {Null}]} :
         n \in 0..MaxItems}

ReferenceValues ==
  {NameValue(name) : name \in EntityNames} \cup {NullValue, IdValue("e1")}

InitLookup ==
  /\ now = 0 /\ appId = FALSE /\ basePref = NoBase
  /\ accountCurrencies = {}
  /\ providers = <<>> /\ periodicUpdatesStarted = FALSE
  /\ initialFetchComplete = FALSE /\ servicesInitialized = FALSE
  /\ cache = {} /\ lastWrite = [k \in Currencies \X Currencies \X Days |-> NoRow]
  /\ tasks = [t \in TaskIds |-> IdleTask]
  /\ timers = <<>> /\ calls = 0 /\ ticks = 0 /\ balanceRefreshSent = 0
  /\ lastScheduleRun = NoDate /\ pendingPrefs = <<>> /\ schedules = {}
  /\ rules = {} /\ nextDates = {} /\ transactions = {}
  /\ closedAccounts = {} /\ mut = IdleMut /\ mutQueue = <<>>
  /\ syncEvents = 0 /\ syncRuns = 0 /\ runsToday = 0
  /\ postsToday = [s \in SchedIds |-> 0] /\ sent = <<>>
  /\ lastResult = [op |-> "none"]
  /\ imp = IdleImp /\ payees = <<>> /\ file = NoFile
  /\ \/ accounts \in NameTables /\ categories = <<>>
     \/ accounts = <<>> /\ categories \in CategoryTables

LookupFrame ==
  /\ UNCHANGED <<lastScheduleRun, pendingPrefs, storeVars, mut, mutQueue,
                 syncEvents, historyVars, sent, calls>>
  /\ RatesQuiet

\* mapNameValuesToIds over the lookup built from the accounts
MapAccountName(value) ==
  /\ categories = <<>>
  /\ lastResult.op = "none"
  /\ lastResult' = [op |-> "mapName", value |-> value,
                    result |-> mapNameValuesToIds(value,
                                 buildNameLookup(accounts), "Account")]
  /\ LookupFrame

\* mapCategoryNameToId over the lookup built from the categories
MapCategoryName(value, groupName) ==
  /\ accounts = <<>>
  /\ lastResult.op = "none"
  /\ lastResult' = [op |-> "mapCategory", value |-> value,
                    groupName |-> groupName,
                    result |-> mapCategoryNameToId(value, groupName,
                                 buildCategoryLookup(categories))]
  /\ LookupFrame

NextLookup ==
  \/ \E value \in ReferenceValues : MapAccountName(value)
  \/ \E value \in ReferenceValues, groupName \in GroupNames \cup {Null} :
       MapCategoryName(value, groupName)

SpecLookup == InitLookup /\ [][NextLookup]_vars

\* importSchedules on its own: a budget with or without the schedule of
\* InitSched, several tables of names, and a file of up to MaxEntries entries
NotObjectItem == [json |-> "null"]

ItemRule(stage, conditions, actions) ==
  [stage |-> stage, conditionsOp |-> "null", conditions |-> conditions,
   actions |-> actions]

Item(name, rule) ==
  [name |-> name, posts_transaction |-> TRUE, completed |-> FALSE,
   rule |-> rule]

FileItems ==
  {NotObjectItem,
   [name |-> "rent"],
   Item(NoName,
        ItemRule("null", <<Cond("is", "acct", NameValue(<<"a">>)),
                           Cond("is", "date", DateValue(1))>>, <<>>)),
   Item(NoName,
        ItemRule("null", <<Cond("is", "payee", NameValue(<<"b">>)),
                           Cond("is", "account", NameValue(<<"b">>)),
                           Cond("is", "date", DateValue(1))>>, <<>>)),
   Item(NoName,
        ItemRule("invalid-stage",
                 <<Cond("is", "description", NameValue(<<"B", " ">>)),
                   Cond("is", "date", DateValue(1))>>, <<>>)),
   Item(NoName,
        ItemRule("pre",
                 <<[op |-> "is", field |-> "category",
                    value |-> NameValue(<<"a">>),
                    category_group |-> <<"b">>],
                   Cond("is", "date", DateValue(1))>>,
                 <<[op |-> "set", field |-> "category",
                    value |-> NameValue(<<"A">>)]>>)),
   Item("rent",
        ItemRule("null", <<Cond("is", "date", RecurValue(0, 1))>>,
                 <<[op |-> "link-schedule", value |-> "s9"]>>)),
   Item(NoName,
        ItemRule("null", <<Cond("is", "payee", NameValue(<<"b">>))>>, <<>>))}

FileItemLists ==
  UNION {[1..n -> FileItems] : n \in 0..MaxEntries}

FileContents ==
  {Unparsable, NotAnObject,
   Payload([schedules |-> Array(<<>>)]),
   Payload([version |-> Number(2), schedules |-> Array(<<NotObjectItem>>)]),
   Payload([version |-> String(1), schedules |-> Array(<<>>)]),
   Payload([version |-> Number(SCHEDULE_TRANSFER_VERSION)]),
   Payload([version |-> Number(SCHEDULE_TRANSFER_VERSION),
            schedules |-> NotAnArray])}
  \cup {Payload([version |-> Number(SCHEDULE_TRANSFER_VERSION),
                 schedules |-> Array(items)]) : items \in FileItemLists}

InitImport ==
  /\ now = 0 /\ appId = FALSE /\ basePref = NoBase
  /\ accountCurrencies = {}
  /\ providers = <<>> /\ periodicUpdatesStarted = FALSE
  /\ initialFetchComplete = FALSE /\ servicesInitialized = FALSE
  /\ cache = {} /\ lastWrite = [k \in Currencies \X Currencies \X Days |-> NoRow]
  /\ tasks = [t \in TaskIds |-> IdleTask]
  /\ timers = <<>> /\ calls = 0 /\ ticks = 0 /\ balanceRefreshSent = 0
  /\ lastScheduleRun = NoDate /\ pendingPrefs = <<>>
  /\ \/ /\ rules = {[id |-> 1, stage |-> "null", conditionsOp |-> "and",
                     conditions |-> <<Cond("is", "date", DateValue(0))>>,
                     actions |-> <<[op |-> "link-schedule", value |-> "s1"]>>,
                     tombstone |-> 0]}
        /\ schedules = {[id |-> "s1", rule |-> 1, name |-> "rent",
                         completed |-> FALSE, posts_transaction |-> FALSE,
                         tombstone |-> 0]}
        /\ nextDates = {[id |-> 1, schedule_id |-> "s1",
                         local_next_date |-> 0, local_next_date_ts |-> 0,
                         base_next_date |-> 0, base_next_date_ts |-> 0]}
     \/ rules = {} /\ schedules = {} /\ nextDates = {}
  /\ transactions = {} /\ closedAccounts = {}
  /\ mut = IdleMut /\ mutQueue = <<>>
  /\ syncEvents = 0 /\ syncRuns = 0 /\ runsToday = 0
  /\ postsToday = [s \in SchedIds |-> 0] /\ sent = <<>>
  /\ lastResult = [op |-> "none"]
  /\ imp = IdleImp
  /\ accounts \in {<<[id |-> "a1", name |-> <<"a">>]>>,
                   <<[id |-> "a1", name |-> <<"a">>],
                     [id |-> "a2", name |-> <<" ", "A">>]>>}
  /\ payees \in {<<>>,
                 <<[id |-> "p1", name |-> <<"b">>, tombstone |-> 0]>>,
                 <<[id |-> "p1", name |-> <<"b">>, tombstone |-> 0],
                   [id |-> "p2", name |-> <<"B">>, tombstone |-> 0]>>}
  /\ categories = <<[id |-> "c1", name |-> <<"a">>, groupName |-> <<"a">>],
                    [id |-> "c2", name |-> <<"a">>, groupName |-> <<"b">>],
                    [id |-> "c3", name |-> <<"b">>, groupName |-> <<"b">>]>>
  /\ file \in FileContents

NextImport ==
  \/ importSchedules(file)
  \/ ImportEntry
  \/ CreateCheckName
  \/ CreateInsertRule
  \/ CreateInsertNextDate
  \/ CreateInsertSchedule
  \/ CreateWriteFails
  \/ ImportUpdateRule
  \/ ImportFails
  \/ DeleteQuery
  \/ DeleteBatch
  \/ ImportEntryDone
  \/ ImportReturn

SpecImport == InitImport /\ [][NextImport]_vars

\* export, deletion and import again: a budget whose one schedule refers to
\* a payee, an account and categories of several tables of names
TransferConditions ==
  {<<Cond("is", "description", IdValue("p1")),
     Cond("is", "acct", IdValue("a1")),
     Cond("is", "category", IdValue("c2")),
     Cond("is", "date", DateValue(1))>>,
   <<Cond("is", "account", IdValue("a2")),
     Cond("is", "date", RecurValue(0, 1))>>}

TransferActions ==
  {<<[op |-> "link-schedule", value |-> "s1"]>>,
   <<[op |-> "link-schedule", value |-> "s1"],
     [op |-> "set", field |-> "category", value |-> IdValue("c1")],
     [op |-> "set", field |-> "payee", value |-> IdValue("p1")]>>}

InitTransfer ==
  /\ now = 0 /\ appId = FALSE /\ basePref = NoBase
  /\ accountCurrencies = {}
  /\ providers = <<>> /\ periodicUpdatesStarted = FALSE
  /\ initialFetchComplete = FALSE /\ servicesInitialized = FALSE
  /\ cache = {} /\ lastWrite = [k \in Currencies \X Currencies \X Days |-> NoRow]
  /\ tasks = [t \in TaskIds |-> IdleTask]
  /\ timers = <<>> /\ calls = 0 /\ ticks = 0 /\ balanceRefreshSent = 0
  /\ lastScheduleRun = NoDate /\ pendingPrefs = <<>>
  /\ \E conditions \in TransferConditions, actions \in TransferActions,
        stage \in {"null", "pre"}, conditionsOp \in {"and", "or"} :
       rules = {[id |-> 1, stage |-> stage, conditionsOp |-> conditionsOp,
                 conditions |-> conditions, actions |-> actions,
                 tombstone |-> 0]}
  /\ \E name \in {NoName, "rent"} :
       schedules = {[id |-> "s1", rule |-> 1, name |-> name,
                     completed |-> FALSE, posts_transaction |-> TRUE,
                     tombstone |-> 0]}
  /\ nextDates = {[id |-> 1, schedule_id |-> "s1", local_next_date |-> 1,
                   local_next_date_ts |-> 0, base_next_date |-> 1,
                   base_next_date_ts |-> 0]}
  /\ transactions = {} /\ closedAccounts = {}
  /\ mut = IdleMut /\ mutQueue = <<>>
  /\ syncEvents = 0 /\ syncRuns = 0 /\ runsToday = 0
  /\ postsToday = [s \in SchedIds |-> 0] /\ sent = <<>>
  /\ lastResult = [op |-> "none"]
  /\ imp = IdleImp /\ file = NoFile
  /\ accounts \in
       {<<[id |-> "a1", name |-> <<"a">>]>>,
        <<[id |-> "a1", name |-> <<"a">>], [id |-> "a2", name |-> <<"b">>]>>,
        <<[id |-> "a1", name |-> <<"a">>],
          [id |-> "a2", name |-> <<" ", "A">>]>>,
        <<[id |-> "a1", name |-> <<"a">>], [id |-> "a2", name |-> <<" ">>]>>}
  /\ payees \in
       {<<[id |-> "p1", name |-> <<"b">>, tombstone |-> 0]>>,
        <<[id |-> "p1", name |-> <<"b">>, tombstone |-> 0],
          [id |-> "p2", name |-> <<"B">>, tombstone |-> 0]>>}
  /\ categories \in
       {<<[id |-> "c1", name |-> <<"a">>, groupName |-> <<"a">>],
          [id |-> "c2", name |-> <<"a">>, groupName |-> <<"b">>]>>,
        <<[id |-> "c1", name |-> <<"a">>, groupName |-> Null],
          [id |-> "c2", name |-> <<"b">>, groupName |-> <<"b">>]>>,
        <<[id |-> "c1", name |-> <<"a">>, groupName |-> <<"a">>],
          [id |-> "c2", name |-> <<"A", " ">>, groupName |-> <<" ", "a">>]>>}

NextTransfer ==
  \/ exportSchedules
  \/ \E id \in SchedIds : deleteSchedule(id)
  \/ DeleteQuery
  \/ DeleteBatch
  \/ \E i \in 1..Len(PayeeIds) : deletePayee(PayeeIds[i])
  \/ file # NoFile /\ importSchedules(file)
  \/ ImportEntry
  \/ CreateCheckName
  \/ CreateInsertRule
  \/ CreateInsertNextDate
  \/ CreateInsertSchedule
  \/ ImportUpdateRule
  \/ ImportEntryDone
  \/ ImportReturn

SpecTransfer == InitTransfer /\ [][NextTransfer]_vars

\* ------------------------------------------------ updateConditions alone
\* the conditions the lists of a rule and of an update are made of
ConditionPool ==
  {Cond("is", "payee", IdValue("p1")), Cond("is", "payee", IdValue("p2")),
   Cond("contains", "payee", IdValue("p1")),
   Cond("contains", "notes", NameValue(<<"a">>)),
   Cond("is", "account", IdValue("a1")),
   Cond("isapprox", "amount", AmountValue(0)),
   Cond("is", "date", DateValue(0)), Cond("is", "date", DateValue(1))}

ConditionLists == UNION {[1..n -> ConditionPool] : n \in 0..MaxConditions}

\* a rule holding the old conditions
InitConditions ==
  /\ now = 0 /\ appId = FALSE /\ basePref = NoBase
  /\ accountCurrencies = {}
  /\ providers = <<>> /\ periodicUpdatesStarted = FALSE
  /\ initialFetchComplete = FALSE /\ servicesInitialized = FALSE
  /\ cache = {} /\ lastWrite = [k \in Currencies \X Currencies \X Days |-> NoRow]
  /\ tasks = [t \in TaskIds |-> IdleTask]
  /\ timers = <<>> /\ calls = 0 /\ ticks = 0 /\ balanceRefreshSent = 0
  /\ lastScheduleRun = NoDate /\ pendingPrefs = <<>> /\ schedules = {}
  /\ nextDates = {} /\ transactions = {}
  /\ closedAccounts = {} /\ mut = IdleMut /\ mutQueue = <<>>
  /\ syncEvents = 0 /\ syncRuns = 0 /\ runsToday = 0
  /\ postsToday = [s \in SchedIds |-> 0] /\ sent = <<>>
  /\ lastResult = [op |-> "none"]
  /\ imp = IdleImp /\ accounts = <<>> /\ payees = <<>> /\ categories = <<>>
  /\ file = NoFile
  /\ \E conditions \in ConditionLists :
       rules = {[id |-> 1, stage |-> "null", conditionsOp |-> "and",
                 conditions |-> conditions, actions |-> <<>>,
                 tombstone |-> 0]}

\* updateConditions(rule.conditions, newConditions) is evaluated
UpdateConditionsCall(newConditions) ==
  /\ lastResult.op = "none"
  /\ lastResult' =
       [op |-> "updateConditions",
        conditions |-> Row(rules, 1).conditions,
        newConditions |-> newConditions,
        updated |-> updateConditions(Row(rules, 1).conditions, newConditions)]
  /\ LookupFrame

NextConditions ==
  \E newConditions \in ConditionLists : UpdateConditionsCall(newConditions)

SpecConditions == InitConditions /\ [][NextConditions]_vars

\* ================================================================= claims

\* C1: in every reachable state the cache holds at most one row for each
\* (from_currency, to_currency, date), and that row carries the rate, the
\* timestamp and the source of the most recent write to that key, whichever
\* of fetchAndCacheRates, addManualRate and getRate's historical caching
\* made it.
C1_OneRowPerKeyLastWriteWins ==
  /\ \A r1 \in cache, r2 \in cache :
       <<r1.from_currency, r1.to_currency, r1.date>> =
         <<r2.from_currency, r2.to_currency, r2.date>> => r1 = r2
  /\ \A k \in DOMAIN lastWrite :
       LET rows == {r \in cache :
                      <<r.from_currency, r.to_currency, r.date>> = k}
       IN IF lastWrite[k] = NoRow THEN rows = {}
          ELSE /\ rows # {}
               /\ \A r \in rows : /\ r.rate = lastWrite[k].data.rate
                                  /\ r.timestamp = lastWrite[k].data.timestamp
                                  /\ r.source = lastWrite[k].data.source

\* a key written by a provider over an earlier write, one row left
C1_KeyRewritten ==
  \E k \in DOMAIN lastWrite :
    /\ lastWrite[k] # NoRow
    /\ lastWrite[k].replaced
    /\ lastWrite[k].data.source # ManualSource
    /\ Cardinality({r \in cache :
                      <<r.from_currency, r.to_currency, r.date>> = k}) = 1

\* C2: across any interleaving of sync-complete events of one day,
\* advanceSchedulesService is started at most once on that day.
C2_OneRunPerDay == syncRuns <= 1

\* C3: when the advancement driver has run at most twice on a calendar day,
\* no schedule has had more than one transaction posted on that day.
C3_TwoRunsPostOnce ==
  runsToday <= 2 => \A s \in SchedIds : postsToday[s] <= 1

\* two runs of the day are over and the due schedule was posted once
C3_SecondRunOver ==
  /\ runsToday = 2 /\ mut = IdleMut /\ mutQueue = <<>>
  /\ postsToday["s1"] = 1
  /\ \E tr \in transactions : tr.schedule = "s1"

\* C4: when getRate's first cache query finds a row for (A, B, D) and D is
\* not today, the call ends there with the row's rate, having called no
\* provider and written nothing to the cache.
C4_HistoricalRowAnswers ==
  [][\A t \in TaskIds :
       (/\ ReadCached(t)
        /\ ~tasks[t].isToday
        /\ \E r \in cache : /\ r.from_currency = tasks[t].from
                            /\ r.to_currency = tasks[t].to
                            /\ r.date = tasks[t].date)
       => /\ tasks'[t].pc = "done"
          /\ \E r \in cache : /\ r.from_currency = tasks[t].from
                              /\ r.to_currency = tasks[t].to
                              /\ r.date = tasks[t].date
                              /\ tasks'[t].result = r.rate
          /\ tasks'[t].pcalls = 0
          /\ cache' = cache]_vars

\* a historical row answered a call made more than an hour after its write
C4_OldRowAnswered ==
  \E t \in TaskIds :
    /\ tasks[t].kind = "getRate" /\ tasks[t].pc = "done"
    /\ ~tasks[t].isToday
    /\ tasks[t].cached # NoRow
    /\ tasks[t].result = tasks[t].cached.rate
    /\ tasks[t].pcalls = 0
    /\ now - tasks[t].cached.timestamp > 60 * 60 * 1000

\* C5: with a row for (from, to, today) cached, getRate answers the row's
\* rate without a provider call if and only if now minus the row's timestamp
\* is below 60 minutes (app id configured) or 15 minutes (otherwise); at that
\* age or above it goes to the provider fetch, and it reads the cache again
\* only after at least one provider call.
C5_FreshIffUnderInterval ==
  [][/\ \A t \in TaskIds :
          AgeLimit(t) =>
            LET age == tasks[t].nowRead - tasks[t].cached.timestamp
                limit == IF appId THEN 60 * 60 * 1000 ELSE 15 * 60 * 1000
            IN /\ age < limit <=> tasks'[t].pc = "done"
               /\ age < limit => /\ tasks'[t].result = tasks[t].cached.rate
                                 /\ tasks'[t].pcalls = 0
               /\ age >= limit => tasks'[t].pc \in {"fetchLoop", "initProv"}
     /\ \A t \in TaskIds :
          tasks'[t].pc = "readFresh" => tasks'[t].pcalls >= 1]_vars

\* a row exactly as old as the interval sent the call to the providers
C5_AtIntervalFetches ==
  \E t \in TaskIds :
    /\ tasks[t].kind = "getRate" /\ tasks[t].pc = "fetchLoop"
    /\ tasks[t].isToday
    /\ tasks[t].cached # NoRow
    /\ tasks[t].nowRead - tasks[t].cached.timestamp =
         (IF appId THEN 60 ELSE 15) * 60 * 1000

\* C6: when getRate reaches its reverse query, it answers 1/r if the cache
\* has a row (B, A, D) with a nonzero rate r, and null if that row has rate 0
\* or does not exist.
C6_ReverseFallback ==
  [][\A t \in TaskIds :
       ReadReverse(t) =>
         LET revs == {r \in cache : /\ r.from_currency = tasks[t].to
                                    /\ r.to_currency = tasks[t].from
                                    /\ r.date = tasks[t].date}
         IN /\ tasks'[t].pc = "done"
            /\ \A r \in revs :
                 tasks'[t].result =
                   IF r.rate[1] # 0 THEN <<r.rate[2], r.rate[1]>> ELSE Null
            /\ revs = {} => tasks'[t].result = Null]_vars

\* a call answered one half from a reverse row of rate 2
C6_ReverseAnswered ==
  \E t \in TaskIds :
    /\ tasks[t].kind = "getRate" /\ tasks[t].pc = "done"
    /\ tasks[t].reads = 3
    /\ tasks[t].result = <<1, 2>>
    /\ \E r \in cache : /\ r.from_currency = tasks[t].to
                        /\ r.to_currency = tasks[t].from
                        /\ r.date = tasks[t].date
                        /\ r.rate = <<2, 1>>

\* C7: getRate(X, X, date) answers 1.0 at once for every currency X and
\* every date argument: no cache read, no cache write, no provider call, no
\* other task started.
C7_SameCurrencyIsOne ==
  [][/\ \A X \in Currencies, d \in DateArgs :
          GetRateCall(X, X, d) =>
            /\ \E t \in TaskIds :
                 /\ tasks[t] = IdleTask
                 /\ tasks'[t].pc = "done" /\ tasks'[t].result = One
                 /\ \A u \in TaskIds \ {t} : tasks'[u] = tasks[u]
            /\ UNCHANGED <<cache, lastWrite, providers, timers,
                           periodicUpdatesStarted>>
     /\ \A t \in TaskIds :
          (tasks'[t].kind = "getRate" /\ tasks'[t].from = tasks'[t].to)
            => /\ tasks'[t].pc = "done" /\ tasks'[t].result = One
               /\ tasks'[t].reads = 0 /\ tasks'[t].pcalls = 0]_vars

\* a same-currency call has answered
C7_SameCurrencyAnswered ==
  \E t \in TaskIds :
    /\ tasks[t].kind = "getRate" /\ tasks[t].pc = "done"
    /\ tasks[t].from = "USD" /\ tasks[t].to = "USD"
    /\ tasks[t].result = One /\ tasks[t].reads = 0

\* C8: when fetchAndCacheRates has returned, every configured provider was
\* queried, in list order, whatever the earlier ones did, and every key a
\* provider's rates were cached under still has a row.
C8_AllProvidersQueried ==
  \A t \in TaskIds :
    tasks[t].pc \in {"readFresh", "cycleNext"} =>
      /\ Len(tasks[t].queried) = Len(tasks[t].provs)
      /\ \A i \in 1..Len(tasks[t].provs) :
           tasks[t].queried[i].name = tasks[t].provs[i]
      /\ \A i \in 1..Len(tasks[t].queried) :
           tasks[t].queried[i].outcome.kind = "rates" =>
             \E r \in cache :
               /\ r.from_currency = tasks[t].from
               /\ r.to_currency = tasks[t].to
               /\ r.date = tasks[t].queried[i].outcome.date

\* the first provider threw and the second one's rates were cached
C8_FailureThenRates ==
  \E t \in TaskIds :
    /\ tasks[t].pc = "readFresh"
    /\ Len(tasks[t].queried) = 2
    /\ tasks[t].queried[1].outcome.kind = "throw"
    /\ tasks[t].queried[2].outcome.kind = "rates"
    /\ \E r \in cache : r.source = tasks[t].queried[2].name

\* C9: at any time at most one update cycle is executing or pending on a
\* timer.
C9_OneCycleAtMost == Cardinality(InFlight("cycle")) + Len(timers) <= 1

\* C10: a createSchedule call whose conditions have no date condition, or a
\* date condition of null value, ends with an error and creates no rule row,
\* no schedule row and no next-date row, neither at the call nor later.
C10_CreateNeedsDate ==
  [][/\ \A schedule \in ScheduleInputs, conditions \in ConditionInputs :
          (/\ createSchedule(schedule, conditions)
           /\ \A i \in 1..Len(conditions) :
                conditions[i].field = "date" =>
                  /\ conditions[i].value = NullValue
                  /\ \A j \in 1..(i - 1) : conditions[j].field # "date")
          => /\ lastResult'.op = "create"
             /\ "error" \in DOMAIN lastResult'
             /\ mut' = IdleMut
             /\ UNCHANGED <<rules, schedules, nextDates>>
     /\ \A r \in rules' \ rules :
          \E i \in 1..Len(r.conditions) :
            /\ r.conditions[i].field = "date"
            /\ r.conditions[i].value # NullValue]_vars

\* a call with a null date was refused and the tables hold the first rows
\* only
C10_NullDateRefused ==
  /\ lastResult = [op |-> "create", error |-> "Date is required"]
  /\ Cardinality(rules) = 1 /\ Cardinality(schedules) = 1
  /\ Cardinality(nextDates) = 1
  /\ mut = IdleMut

\* C11: a createSchedule call whose non-null name is the name of a live
\* schedule ends with an error at the name check, no rule, schedule or
\* next-date row of the new id having been written, and no call with such a
\* name ever reaches its first write.
C11_DuplicateNameFails ==
  [][/\ (/\ CreateCheckName
         /\ \E r \in schedules : r.tombstone = 0 /\ r.name = mut.schedule.name)
        => /\ mut' = IdleMut
           /\ "error" \in DOMAIN lastResult'
           /\ UNCHANGED <<rules, schedules, nextDates>>
           /\ \A r \in rules : \A k \in 1..Len(r.actions) :
                r.actions[k].value # mut.scheduleId
           /\ \A nd \in nextDates : nd.schedule_id # mut.scheduleId
           /\ \A r \in schedules : r.id # mut.scheduleId
     /\ (/\ mut'.kind = "create"
         /\ mut'.pc = "insertRule"
         /\ mut'.schedule # NoSchedule)
        => \/ mut'.schedule.name = NoName
           \/ \A r \in schedules' :
                r.tombstone = 0 => r.name # mut'.schedule.name]_vars

\* a second schedule named like the first was refused, one row per table
C11_DuplicateRefused ==
  /\ lastResult = [op |-> "create",
                   error |-> "Cannot create schedules with the same name"]
  /\ Cardinality(rules) = 1 /\ Cardinality(schedules) = 1
  /\ Cardinality(nextDates) = 1

\* C12: in every state, for every schedule id, the rule linking the id, the
\* next-date row of the id and the schedule row of the id exist all three or
\* not at all.
C12_CreateAllOrNothing ==
  \A i \in SchedIds :
    LET hasRule == \E r \in rules : \E k \in 1..Len(r.actions) :
                     r.actions[k] = [op |-> "link-schedule", value |-> i]
        hasNextDate == \E nd \in nextDates : nd.schedule_id = i
        hasSchedule == \E r \in schedules : r.id = i
    IN (hasRule <=> hasNextDate) /\ (hasNextDate <=> hasSchedule)

\* C13: every live schedule row references a live rule whose actions hold
\* exactly one link-schedule action, and its value is the schedule's id.
C13_ScheduleLinksItsRule ==
  \A r \in schedules :
    r.tombstone = 0 =>
      \E rule \in rules :
        /\ rule.id = r.rule /\ rule.tombstone = 0
        /\ Cardinality({k \in 1..Len(rule.actions) :
                          rule.actions[k].op = "link-schedule"}) = 1
        /\ \A k \in 1..Len(rule.actions) :
             rule.actions[k].op = "link-schedule" =>
               rule.actions[k].value = r.id

\* an import whose payload carried a link to another schedule has finished
C13_ImportedWithForeignLink ==
  /\ "id" \in DOMAIN lastResult /\ lastResult.op = "import"
  /\ \E r \in schedules :
       /\ r.id = lastResult.id /\ r.tombstone = 0
       /\ \E rule \in rules :
            /\ rule.id = r.rule
            /\ Len(rule.actions) = 2
            /\ rule.actions[2].op = "set"

\* C14: an updateSchedule call whose conditions carry an account condition
\* different from the stored one leaves next_date at the next occurrence of
\* the schedule's date condition from the day of the call.
C14_AccountChangeRecomputes ==
  [][(/\ UpdateBatch
      /\ mut.pc = "batch" /\ mut.hasConditions
      /\ FirstCond(mut.conditions, "account") # NoCond
      /\ FirstCond(mut.conditions, "account") #
           FirstCond(Row(rules, mut.ruleId).conditions, "account"))
     => \E nd \in nextDates' :
          /\ nd.schedule_id = mut.schedule.id
          /\ NextDateOf(nd) =
               getNextDate(
                 FirstCond(updateConditions(Row(rules, mut.ruleId).conditions,
                                            mut.conditions), "date"),
                 currentDay)]_vars

\* C15: an updateSchedule call with resetNextDate, or with a date condition
\* different from the stored one, leaves next_date at the next occurrence of
\* the merged date condition from the day of the call.
C15_DateChangeRecomputes ==
  [][(/\ UpdateBatch
      /\ mut.pc = "batch" /\ mut.hasConditions
      /\ FirstCond(updateConditions(Row(rules, mut.ruleId).conditions,
                                    mut.conditions), "date") # NoCond
      /\ \/ mut.resetNextDate
         \/ /\ FirstCond(mut.conditions, "date") # NoCond
            /\ FirstCond(mut.conditions, "date").value #
                 FirstCond(Row(rules, mut.ruleId).conditions, "date").value)
     => \E nd \in nextDates' :
          /\ nd.schedule_id = mut.schedule.id
          /\ NextDateOf(nd) =
               getNextDate(
                 FirstCond(updateConditions(Row(rules, mut.ruleId).conditions,
                                            mut.conditions), "date"),
                 currentDay)]_vars

\* C16 as stated: every step of an updateSchedule call that changes the rules,
\* the schedule rows or the next-date rows is the step of its single batch.
C16_AllWritesInBatch ==
  [][(/\ mut.kind = "update"
      /\ <<rules, schedules, nextDates>>' # <<rules, schedules, nextDates>>)
     => mut.pc = "batch"]_vars

\* C16: the rule update, the next_date recompute and the schedule row update
\* of one updateSchedule call are applied together by the step of its single
\* batch, which ends the call; the only other writes of the call are those of
\* the rule repair, made one by one before the batch, and they touch no
\* next-date row.
C16_BatchAfterRepair ==
  [][(/\ mut.kind = "update"
      /\ <<rules, schedules, nextDates>>' # <<rules, schedules, nextDates>>)
     => \/ /\ mut.pc = "batch"
           /\ mut' = IdleMut
           /\ rules' = BatchRules(mut)
           /\ nextDates' = BatchNextDates(mut)
           /\ schedules' = updateWithSchema(schedules, mut.schedule)
        \/ /\ mut.pc \in {"fixDelete", "fixInsert", "fixRelink"}
           /\ mut'.kind = "update"
           /\ UNCHANGED nextDates]_vars

\* an update that repaired the rule has ended, and its batch moved next_date
C16_RepairedThenBatched ==
  /\ lastResult.op = "update" /\ "repaired" \in DOMAIN lastResult
  /\ lastResult.repaired
  /\ lastResult.reset
  /\ NextDateOf(NextDateRow(lastResult.id)) # lastResult.before.next_date

\* C17: the batch of deleteSchedule removes the schedule row and the rule it
\* is linked to in one step, and in every state a schedule row is deleted
\* exactly if the rule it points to is.
C17_DeleteBothAtOnce ==
  [][/\ DeleteBatch =>
          /\ \A r \in schedules' : r.id = mut.id => r.tombstone = 1
          /\ \A rule \in rules' : rule.id = mut.ruleId => rule.tombstone = 1
     /\ \A r \in schedules' : \A rule \in rules' :
          rule.id = r.rule => rule.tombstone = r.tombstone]_vars

\* a deleteSchedule call has ended and rows of both tables are deleted
C17_ScheduleAndRuleGone ==
  /\ lastResult.op = "delete"
  /\ \E r \in schedules : r.id = lastResult.id /\ r.tombstone = 1
  /\ \E rule \in rules : rule.id = lastResult.ruleId /\ rule.tombstone = 1

\* C18: an updateSchedule call with conditions on a schedule whose rule is
\* missing ends without error, the schedule row pointing to a new live rule
\* whose only action links the schedule and whose conditions are the repair
\* conditions merged with the call's, and the fields of the call written to
\* the row.
C18_MissingRuleRepaired ==
  [][/\ (UpdateGetRule /\ getRuleForSchedule(mut.schedule.id) = NoRow)
        => mut'.pc = "fixDelete"
     /\ (mut.kind = "update" /\ mut.pc \in {"fixDelete", "fixInsert"})
        => mut'.kind = "update"
     /\ UpdateFixInsert
        => \E rule \in rules' :
             /\ rule.id = mut'.ruleId /\ rule.tombstone = 0
             /\ \A old \in rules : old.id # rule.id
             /\ rule.actions =
                  <<[op |-> "link-schedule", value |-> mut.schedule.id]>>
             /\ FirstCond(rule.conditions, "date").value =
                  DateValue(currentDay)
     /\ (UpdateBatch /\ mut.repaired)
        => /\ "error" \notin DOMAIN lastResult'
           /\ \E r \in schedules' :
                /\ r.id = mut.schedule.id /\ r.tombstone = 0
                /\ \A f \in DOMAIN mut.schedule : r[f] = mut.schedule[f]
                /\ \E rule \in rules' :
                     /\ rule.id = r.rule /\ rule.tombstone = 0
                     /\ rule.id = mut.ruleId /\ rule.id # 1
                     /\ rule.actions =
                          <<[op |-> "link-schedule", value |-> r.id]>>
                     /\ rule.conditions =
                          updateConditions(Row(rules, mut.ruleId).conditions,
                                           mut.conditions)]_vars

\* an update of the schedule with the missing rule has ended, a second rule
\* in the store
C18_UpdateAfterRepairEnded ==
  /\ lastResult.op = "update" /\ "repaired" \in DOMAIN lastResult
  /\ lastResult.repaired
  /\ Cardinality(rules) = 2
  /\ \E rule \in rules : rule.tombstone = 1

C20_DuePostedOnceDateKept ==
  [][/\ (/\ AdvanceStep
         /\ mut.syncSuccess
         /\ getStatus(mut.schedules[mut.idx].next_date,
                      mut.schedules[mut.idx].completed,
                      mut.schedules[mut.idx].id \in mut.hasTrans,
                      mut.upcomingLength) \in {"due", "missed"}
         /\ mut.schedules[mut.idx].posts_transaction
         /\ mut.schedules[mut.idx]._account # NullValue
         /\ mut.schedules[mut.idx]._account.id \notin closedAccounts)
        => /\ transactions \subseteq transactions'
           /\ Cardinality(transactions' \ transactions) = 1
           /\ \A tr \in transactions' \ transactions :
                /\ tr.schedule = mut.schedules[mut.idx].id
                /\ tr.date = mut.schedules[mut.idx].next_date
                /\ tr.date = NextDateOf(NextDateRow(tr.schedule))
           /\ UNCHANGED nextDates
     /\ (mut.kind = "advance" /\ mut.syncSuccess)
        => \A i \in 1..Len(mut.schedules) :
             (/\ mut.schedules[i].id \notin mut.hasTrans
              /\ mut.schedules[i].next_date <= currentDay
              /\ mut.schedules[i].posts_transaction)
             => \A nd \in nextDates :
                  nd.schedule_id = mut.schedules[i].id => nd \in nextDates']_vars

\* a run after a successful sync has posted a missed schedule
C20_MissedSchedulePosted ==
  /\ mut.kind = "advance" /\ mut.syncSuccess /\ mut.didPost
  /\ \E tr \in transactions :
       /\ tr.date < currentDay
       /\ tr.date = NextDateOf(NextDateRow(tr.schedule))
       /\ \E i \in 1..Len(mut.schedules) :
            /\ i < mut.idx /\ mut.schedules[i].id = tr.schedule
            /\ tr.schedule \notin mut.hasTrans

\* C21: while a run of the advance service started with sync not succeeded
\* is under way no transaction is added; its step on a due or missed schedule
\* that posts transactions and has an account defers the schedule; and a run
\* that deferred a schedule ends by sending the offline notification and
\* nothing else.
C21_OfflineDefers ==
  [][/\ (mut.kind = "advance" /\ ~mut.syncSuccess)
        => transactions' = transactions
     /\ (/\ AdvanceStep
         /\ ~mut.syncSuccess
         /\ getStatus(mut.schedules[mut.idx].next_date,
                      mut.schedules[mut.idx].completed,
                      mut.schedules[mut.idx].id \in mut.hasTrans,
                      mut.upcomingLength) \in {"due", "missed"}
         /\ mut.schedules[mut.idx].posts_transaction
         /\ mut.schedules[mut.idx]._account # NullValue)
        => /\ Len(mut'.failedToPost) = Len(mut.failedToPost) + 1
           /\ ~mut'.didPost
     /\ (AdvanceFinish /\ Len(mut.failedToPost) > 0)
        => sent' = Append(sent, "schedules-offline")]_vars

\* a run after a failed sync has deferred a schedule and told the client
C21_OfflineSent ==
  /\ Len(sent) > 0 /\ sent[Len(sent)] = "schedules-offline"
  /\ transactions = {}
  /\ mut = IdleMut

\* C22: a schedule deferred by a run made with sync not succeeded, on a day
\* that is not the last one, eventually has its transaction posted by a run
\* made with sync succeeded.
C22_DeferredThenPosted ==
  (/\ mut.kind = "advance" /\ ~mut.syncSuccess
   /\ Len(mut.failedToPost) > 0
   /\ today < MaxDay)
  ~> (/\ mut.kind = "advance" /\ mut.syncSuccess /\ mut.didPost
      /\ \E tr \in transactions :
           \E i \in 1..Len(mut.schedules) :
             /\ mut.schedules[i].id = tr.schedule
             /\ tr.date = mut.schedules[i].next_date)

\* the schedule deferred on day 0 has been posted by a later run
C22_RetryPosted ==
  /\ Len(sent) > 0 /\ sent[1] = "schedules-offline"
  /\ mut.kind = "advance" /\ mut.syncSuccess /\ mut.didPost
  /\ \E tr \in transactions : tr.date < currentDay

\* C28: names are matched after trimming and lower-casing: whatever the
\* number and order of the accounts, a name reference resolves to an id only
\* when exactly one account has that trimmed, lower-cased name, to the id
\* of that account, and it fails when two or more accounts have it
C28_ResolvesOnlyWhenUnique ==
  lastResult.op = "mapName" /\ lastResult.value.kind = "name" =>
    LET wanted == toLowerCase(trim(lastResult.value.name))
        holders == {i \in 1..Len(accounts) :
                      /\ wanted # <<>>
                      /\ toLowerCase(trim(accounts[i].name)) = wanted}
    IN /\ Cardinality(holders) = 1 =>
            \E i \in holders :
              lastResult.result = Mapped(IdValue(accounts[i].id))
       /\ Cardinality(holders) >= 2 => ~lastResult.result.ok
       /\ lastResult.result.ok /\ lastResult.result.value.kind = "id" =>
            Cardinality(holders) = 1

\* three accounts whose names differ only in case and blanks, and a
\* reference to them spelt a fourth way: it failed
C28_ThreeHoldersFail ==
  /\ lastResult.op = "mapName"
  /\ lastResult.value = NameValue(<<"a", " ">>)
  /\ Len(accounts) = 3
  /\ accounts[1].name = <<"a">> /\ accounts[2].name = <<"A">>
  /\ accounts[3].name = <<" ", "a">>
  /\ ~lastResult.result.ok

\* C27: a category name that carries a group name resolves to a category
\* having that normalized name in that normalized group when one exists;
\* otherwise, and without a group, it resolves by name alone when exactly
\* one category has that normalized name, and fails when several or none do
C27_GroupThenUniqueName ==
  /\ lastResult.op = "mapCategory"
  /\ lastResult.value.kind = "name"
  /\ trim(lastResult.value.name) # <<>>
  => LET wanted == toLowerCase(trim(lastResult.value.name))
         group == IF lastResult.groupName = Null THEN <<>>
                  ELSE toLowerCase(trim(lastResult.groupName))
         byName == {i \in 1..Len(categories) :
                      toLowerCase(trim(categories[i].name)) = wanted}
         scoped == {i \in byName :
                      /\ group # <<>>
                      /\ categories[i].groupName # Null
                      /\ toLowerCase(trim(categories[i].groupName)) = group}
     IN /\ scoped # {} =>
             \E i \in scoped :
               lastResult.result = Mapped(IdValue(categories[i].id))
        /\ scoped = {} /\ Cardinality(byName) = 1 =>
             \E i \in byName :
               lastResult.result = Mapped(IdValue(categories[i].id))
        /\ scoped = {} /\ Cardinality(byName) # 1 => ~lastResult.result.ok

\* two categories of one name in two groups, and a reference that names
\* the group of the second: it resolved to the second
C27_SecondGroupChosen ==
  /\ lastResult.op = "mapCategory"
  /\ Len(categories) = 2
  /\ categories[1].name = <<"a">> /\ categories[1].groupName = <<"a">>
  /\ categories[2].name = <<"A", " ">> /\ categories[2].groupName = <<"b">>
  /\ lastResult.value = NameValue(<<"a">>)
  /\ lastResult.groupName = <<"b">>
  /\ lastResult.result = Mapped(IdValue(categories[2].id))

\* C23: importSchedules throws, and changes nothing in the store, when the
\* content does not parse, is not an object, has a missing or unsupported
\* version, or has no schedules array
C23_MalformedFileThrows ==
  [][LET malformed ==
           \/ file.json # "object"
           \/ "version" \notin DOMAIN file.fields
           \/ file.fields.version # Number(1)
           \/ "schedules" \notin DOMAIN file.fields
           \/ ~file.fields.schedules.array
     IN calls' # calls /\ malformed =>
          /\ lastResult'.op = "import" /\ "error" \in DOMAIN lastResult'
          /\ imp' = IdleImp /\ mut' = IdleMut
          /\ UNCHANGED <<storeVars, accounts, payees, categories>>]_vars

\* a file of version 2 that holds an entry was refused
C23_VersionTwoRefused ==
  /\ file.json = "object" /\ "version" \in DOMAIN file.fields
  /\ file.fields.version = Number(2)
  /\ file.fields.schedules.array /\ Len(file.fields.schedules.items) > 0
  /\ lastResult.op = "import" /\ "error" \in DOMAIN lastResult
  /\ lastResult.error = <<"Unsupported schedules file version">>

C25_FailedEntryLeavesNoRows ==
  /\ lastResult.op = "import" /\ "result" \in DOMAIN lastResult
  /\ imp = IdleImp
  =>
    \A rule \in Live(rules) : \E r \in Live(schedules) : r.rule = rule.id

\* C26: an import entry that fails because an account, payee or category
\* name is missing or ambiguous changes nothing: no schedule, rule or
\* next-date row, and no new payee
C26_NameFailureChangesNothing ==
  [][/\ imp.pc = "entry" /\ imp'.pc = "entry" /\ imp'.next = imp.next + 1
     /\ imp'.result.skipped = imp.result.skipped + 1
     /\ Len(imp'.result.errors[Len(imp'.result.errors)].message) = 2
     => UNCHANGED <<schedules, rules, nextDates, payees>>]_vars

C30_TimerStartsNextCycle ==
  [][/\ basePref # NoBase
     /\ \E i \in 1..Len(timers) :
          /\ timers[i].delay # BaseRetryMs
          /\ timers' = SubSeq(timers, 1, i - 1) \o
                         SubSeq(timers, i + 1, Len(timers))
     => \E t \in TaskIds :
          tasks[t].kind # "cycle" /\ tasks'[t].kind = "cycle"]_vars

\* C31: a cycle that raises an exception is followed by another cycle: the
\* step that ends the failed cycle arms a timer for the next one
C31_FailedCycleArmsTimer ==
  [][\A t \in TaskIds :
       /\ tasks[t].kind = "cycle"
       /\ tasks[t].pc = "usedCurrencies"
       /\ tasks'[t] = IdleTask
       => /\ Len(timers') = Len(timers) + 1
          /\ timers'[Len(timers')].due > now]_vars

\* C32: a cycle that finds no base currency fetches nothing, arms a retry of
\* 60 seconds and leaves the loop unmarked; the retry that fires once the
\* preference is set starts a cycle
C32_UnsetBaseRetries ==
  [][/\ \A t \in TaskIds :
          /\ tasks[t].kind = "cycle"
          /\ tasks[t].pc = "readBase"
          /\ basePref = NoBase
          /\ tasks'[t] = IdleTask
          => /\ cache' = cache
             /\ timers' = Append(timers, [due |-> now + BaseRetryMs,
                                          delay |-> BaseRetryMs])
             /\ ~periodicUpdatesStarted'
     /\ (/\ basePref # NoBase
         /\ \E i \in 1..Len(timers) :
              /\ timers[i].delay = BaseRetryMs
              /\ timers' = SubSeq(timers, 1, i - 1) \o
                             SubSeq(timers, i + 1, Len(timers)))
        => \E t \in TaskIds :
             tasks[t].kind # "cycle" /\ tasks'[t].kind = "cycle"]_vars

\* C33: the balance refresh is sent at most once, and only by a cycle whose
\* fetch stored at least one rate
C33_RefreshOnceAfterRates ==
  [][/\ balanceRefreshSent' <= 1
     /\ balanceRefreshSent' # balanceRefreshSent
        => \E t \in TaskIds :
             /\ tasks[t].kind = "cycle"
             /\ tasks'[t].pc = "schedule"
             /\ \E k \in 1..Len(tasks[t].queried) :
                  tasks[t].queried[k].outcome.kind = "rates"]_vars

\* C34: a provider asked for a historical rate either answers one, which is
\* then stored under that provider's name and returned after exactly the
\* providers before it were asked and with no live fetch, or it fails and
\* the next provider in list order (the live fetch after the last) is next
C34_FirstHistoricalAnswerWins ==
  [][\A t \in TaskIds :
       (/\ tasks[t].kind = "getRate"
        /\ tasks[t].pc = "histLoop"
        /\ tasks'[t] # tasks[t])
       => LET tk == tasks[t]
              tn == tasks'[t]
              row == Lookup(cache', tk.from, tk.to, tk.date)
          IN /\ tk.provs = providers
             /\ tk.pcalls = tk.idx - 1
             /\ \/ /\ tn.pc = "done"
                   /\ row # NoRow
                   /\ row.source = providers[tk.idx]
                   /\ row.timestamp = now
                   /\ tn.result = row.rate
                   /\ tn.pcalls = tk.idx
                   /\ tn.queried = <<>>
                \/ /\ UNCHANGED <<cache, lastWrite>>
                   /\ IF tk.idx < Len(providers)
                      THEN tn.pc = "histLoop" /\ tn.idx = tk.idx + 1
                      ELSE tn.pc = "fetchLoop" /\ tn.idx = 1]_vars

\* the second provider answered a historical rate after the first failed
C34_SecondProviderAnswered ==
  \E t \in TaskIds :
    /\ tasks[t].kind = "getRate" /\ tasks[t].pc = "done"
    /\ ~tasks[t].isToday
    /\ tasks[t].cached = NoRow
    /\ tasks[t].pcalls = 2
    /\ tasks[t].queried = <<>>
    /\ \E r \in cache : /\ r.id = RowId(tasks[t].from, tasks[t].to, tasks[t].date)
                        /\ r.source = MempoolSpaceName
                        /\ r.rate = tasks[t].result
                        /\ providers[2] = MempoolSpaceName

\* C35: the advancement service marks a paid non-recurring schedule whose
\* date is before today completed, and a completed schedule is loaded by no
\* later run, gets no transaction and keeps its row and its next date
C35_CompletedIsTerminal ==
  [][/\ (/\ mut.kind = "advance"
         /\ mut.idx <= Len(mut.schedules)
         /\ mut' # mut
         /\ getStatus(mut.schedules[mut.idx].next_date,
                      mut.schedules[mut.idx].completed,
                      mut.schedules[mut.idx].id \in mut.hasTrans,
                      mut.upcomingLength) = "paid"
         /\ mut.schedules[mut.idx]._date.kind = "date"
         /\ mut.schedules[mut.idx]._date.date < currentDay)
        => \E s \in schedules' :
             /\ s.id = mut.schedules[mut.idx].id
             /\ s.tombstone = 0
             /\ s.completed
     /\ \A s \in schedules :
          s.completed /\ s.tombstone = 0
          => /\ s \in schedules'
             /\ \A tr \in transactions' \ transactions : tr.schedule # s.id
             /\ \A nd \in nextDates : nd.schedule_id = s.id => nd \in nextDates'
             /\ (mut.kind # "advance" /\ mut'.kind = "advance")
                => \A i \in 1..Len(mut'.schedules) :
                     mut'.schedules[i].id # s.id]_vars

\* a run started after the service completed the schedule, and went without it
C35_LaterRunWithoutCompleted ==
  /\ mut.kind = "advance"
  /\ \E s \in schedules :
       /\ s.completed /\ s.tombstone = 0
       /\ \E tr \in transactions : tr.schedule = s.id
       /\ \A i \in 1..Len(mut.schedules) : mut.schedules[i].id # s.id

\* C36: updateConditions answers the old list with the condition of each
\* schedule field (payee, account, amount, date) replaced where it stands by
\* its counterpart in the new list when there is one, every other old
\* condition in its place, and the schedule-field conditions that only the
\* new list has after them
C36_MergedInPlaceThenAppended ==
  lastResult.op = "updateConditions" =>
    LET old == lastResult.conditions
        updated == lastResult.updated
        oldConds == extractScheduleConds(old)
        newConds == extractScheduleConds(lastResult.newConditions)
        IsScheduleCond(i) ==
          /\ old[i].field \in DOMAIN oldConds
          /\ oldConds[old[i].field] = old[i]
          /\ \A j \in 1..(i - 1) : old[j] # old[i]
        onlyNew == {f \in DOMAIN newConds :
                      oldConds[f] = NoCond /\ newConds[f] # NoCond}
    IN /\ Len(updated) = Len(old) + Cardinality(onlyNew)
       /\ \A i \in 1..Len(old) :
            updated[i] =
              IF IsScheduleCond(i) /\ newConds[old[i].field] # NoCond
              THEN newConds[old[i].field] ELSE old[i]
       /\ \A f \in onlyNew :
            \E k \in (Len(old) + 1)..Len(updated) : updated[k] = newConds[f]

\* one condition replaced where it stood, one kept and one appended
C36_ReplacedKeptAppended ==
  /\ lastResult.op = "updateConditions"
  /\ Len(lastResult.conditions) = 2
  /\ Len(lastResult.updated) = 3
  /\ lastResult.updated[1] # lastResult.conditions[1]
  /\ lastResult.updated[2] = lastResult.conditions[2]
  /\ lastResult.updated[2].field = "payee"

\* C37: a key that has a row keeps one, getRate answers null only when its
\* first query found no row for the key, the reverse query is made only
\* when the second forward query finds none, and a row found stale is still
\* the answer when the fetch brought nothing newer
C37_CachedKeyNeverNull ==
  [][/\ \A r \in cache : \E r2 \in cache' : r2.id = r.id
     /\ \A t \in TaskIds :
          tasks'[t].kind = "getRate" =>
            LET row == Lookup(cache, tasks'[t].from, tasks'[t].to,
                              tasks'[t].date)
            IN /\ (/\ tasks[t].pc # "done"
                   /\ tasks'[t].pc = "done"
                   /\ tasks'[t].result = Null) => tasks'[t].cached = NoRow
               /\ (/\ tasks[t].pc # "readReverse"
                   /\ tasks'[t].pc = "readReverse") => row = NoRow
               /\ (/\ tasks[t].pc = "readFresh"
                   /\ tasks[t].cached # NoRow
                   /\ tasks'[t] # tasks[t])
                  => /\ tasks'[t].pc = "done"
                     /\ row # NoRow
                     /\ tasks'[t].result = row.rate]_vars

\* a stale row of today was the answer after every provider had failed
C37_StaleRowAnswered ==
  \E t \in TaskIds :
    /\ tasks[t].kind = "getRate" /\ tasks[t].pc = "done"
    /\ tasks[t].isToday
    /\ tasks[t].cached # NoRow
    /\ now - tasks[t].cached.timestamp >= getNextUpdateDelay(appId)
    /\ tasks[t].queried # <<>>
    /\ \A k \in 1..Len(tasks[t].queried) :
         tasks[t].queried[k].outcome.kind # "rates"
    /\ tasks[t].result = tasks[t].cached.rate

\* C38 as stated: no two live schedules have the same non-null name,
\* whatever calls of createSchedule, updateSchedule and importSchedules were
\* made
C38_NamesUnique ==
  \A s1 \in Live(schedules), s2 \in Live(schedules) :
    s1.id # s2.id /\ s1.name # NoName => s1.name # s2.name

\* C38: no step of createSchedule or importSchedules gives a live
\* schedule the non-null name of another one; only the row write of
\* updateSchedule, which checks no name, can
C38_CreateAndImportKeepNamesUnique ==
  [][(/\ \A s1 \in Live(schedules), s2 \in Live(schedules) :
           s1.id # s2.id /\ s1.name # NoName => s1.name # s2.name
      /\ mut.kind # "update")
     => \A s1 \in Live(schedules'), s2 \in Live(schedules') :
          s1.id # s2.id /\ s1.name # NoName => s1.name # s2.name]_vars

\* an import whose entry carries the name of a live schedule skipped it, and
\* two schedules are live
C38_ImportRefusedName ==
  /\ lastResult.op = "import"
  /\ "result" \in DOMAIN lastResult
  /\ lastResult.result.skipped = 1
  /\ lastResult.result.errors[1].message =
       <<"Cannot create schedules with the same name">>
  /\ \E s \in Live(schedules) : s.name = "rent"
  /\ Cardinality(Live(schedules)) = 2
  /\ \A s1 \in Live(schedules), s2 \in Live(schedules) :
       s1.id # s2.id => s1.name # s2.name

\* C39: a step that adds a transaction adds it for a schedule that is not
\* completed, has posts_transaction set and is linked to an account that is
\* present and open, whatever the sync outcome and the due status of the
\* others
C39_PostsOnlyForOpenActive ==
  [][\A tr \in transactions' \ transactions :
       LET s == Row(schedules, tr.schedule)
       IN /\ s # NoRow
          /\ ~s.completed
          /\ s.posts_transaction
          /\ ScheduleView(s)._account # NullValue
          /\ ScheduleView(s)._account.id \notin closedAccounts
          /\ tr.account = ScheduleView(s)._account.id]_vars

\* a run after a successful sync has gone through its schedules on the day
\* both are at or past their date: the one whose flag is off was loaded, the
\* one without an account was not, and nothing was posted
C39_FlaglessAndAccountlessSkipped ==
  /\ mut.kind = "advance" /\ mut.syncSuccess
  /\ Len(mut.schedules) = 1 /\ mut.idx = 2
  /\ today = 1
  /\ mut.schedules[1].id = "s1"
  /\ ~mut.schedules[1].posts_transaction
  /\ mut.schedules[1]._account # NullValue
  /\ mut.schedules[1].next_date = 0
  /\ \E s \in Live(schedules) :
       /\ s.id = "s2" /\ s.posts_transaction /\ ~s.completed
       /\ ScheduleView(s)._account = NullValue
       /\ ScheduleView(s).next_date = 1
  /\ transactions = {}

\* C40: the write of schedule/skip-next-date on a recurring schedule leaves
\* next_date at the first occurrence on or after the day following the
\* next_date it found, which is a later day, through the local date alone,
\* the base date and its timestamp as they were; on a schedule that is not
\* recurring it leaves the next-date rows as they were; no other table changes
C40_SkipMovesRecurringOnly ==
  [][mut.kind = "skip" /\ mut'.kind = "idle" =>
       LET view == ScheduleView(Row(schedules, mut.id))
           nd == NextDateRow(mut.id)
       IN /\ UNCHANGED <<schedules, rules, transactions>>
          /\ IF view._date.kind = "recur"
             THEN \E after \in nextDates' :
                    /\ nextDates' = (nextDates \ {nd}) \cup {after}
                    /\ after.schedule_id = mut.id
                    /\ NextDateOf(after) =
                         getNextDate(Cond("is", "date", view._date),
                                     view.next_date + 1)
                    /\ NextDateOf(after) > view.next_date
                    /\ after.base_next_date = nd.base_next_date
                    /\ after.base_next_date_ts = nd.base_next_date_ts
             ELSE nextDates' = nextDates]_vars

====
